---------------------------- MODULE Spec2Model ----------------------------
(* A model of the patch engine of ai-code-integrator (src/patcher_core.py):  *)
(* the Analyzer's decision table and match cascade, the Transactor's apply   *)
(* and undo, the Backup Store and the History Log.                           *)
(*                                                                           *)
(* Text is a sequence of one-character strings.  A file system is a function *)
(* whose domain is the set of paths that exist.                              *)
EXTENDS Integers, Sequences, FiniteSets, TLC

\* ------------------------------------------------------------------------
\* Characters and Python string primitives
\* ------------------------------------------------------------------------

NL == "\n"
SP == " "
CR == "\r"
\* a byte that is not valid UTF-8: read_text raises on a file that holds one
BAD == "\\xff"

\* str.isspace of one character
IsSpace(c) == c \in {SP, NL, CR}

\* the regex class \w
IsWord(c) == c \in {"a", "b", "c", "_"}

Min(a, b) == IF a < b THEN a ELSE b

\* s[i:] and s[:i] with Python's 0-based bounds
From(s, i) == SubSeq(s, i + 1, Len(s))

Upto(s, i) == SubSeq(s, 1, i)

RECURSIVE LStrip(_)
LStrip(s) == IF s # <<>> /\ IsSpace(Head(s)) THEN LStrip(Tail(s)) ELSE s

RECURSIVE RStrip(_)
RStrip(s) ==
    IF s # <<>> /\ IsSpace(s[Len(s)]) THEN RStrip(Upto(s, Len(s) - 1)) ELSE s

\* str.strip()
Strip(s) == RStrip(LStrip(s))

\* s.strip() == ""
IsBlank(s) == Strip(s) = <<>>

\* s.startswith(sub)
StartsWith(s, sub) == Len(sub) <= Len(s) /\ Upto(s, Len(sub)) = sub

\* s.find(sub): the 0-based index of the first occurrence, -1 when none
RECURSIVE FindFrom(_, _, _)
FindFrom(s, sub, i) ==
    IF i + Len(sub) > Len(s) THEN -1
    ELSE IF StartsWith(From(s, i), sub) THEN i
    ELSE FindFrom(s, sub, i + 1)

Find(s, sub) == FindFrom(s, sub, 0)

\* sub in s
Contains(s, sub) == Find(s, sub) >= 0

\* a count that stops at the first occurrence
CountFirstOnly(s, sub) == IF Find(s, sub) < 0 THEN 0 ELSE 1

\* s.count(sub): non-overlapping occurrences, scanned left to right
RECURSIVE Count(_, _)
Count(s, sub) ==
    LET i == Find(s, sub)
    IN  IF i < 0 THEN 0
        ELSE IF sub = <<>> THEN Len(s) + 1
        ELSE 1 + Count(From(s, i + Len(sub)), sub)

\* s.count('\n')
RECURSIVE CountNL(_)
CountNL(s) ==
    IF s = <<>> THEN 0
    ELSE (IF Head(s) = NL THEN 1 ELSE 0) + CountNL(Tail(s))

\* s.replace(old, new, 1) for a non-empty old
ReplaceFirst(s, old, new) ==
    LET i == Find(s, old)
    IN  IF i < 0 THEN s
        ELSE Upto(s, i) \o new \o From(s, i + Len(old))

\* s.split('\n')
RECURSIVE SplitLines(_)
SplitLines(s) ==
    LET i == Find(s, <<NL>>)
    IN  IF i < 0 THEN <<s>>
        ELSE <<Upto(s, i)>> \o SplitLines(From(s, i + 1))

\* sep.join(parts)
RECURSIVE Join(_, _)
Join(sep, parts) ==
    IF parts = <<>> THEN <<>>
    ELSE IF Len(parts) = 1 THEN parts[1]
    ELSE parts[1] \o sep \o Join(sep, Tail(parts))

\* ' '.join(s.split()): whitespace runs collapsed, ends trimmed
RECURSIVE Collapse(_)
Collapse(s) ==
    IF s = <<>> THEN <<>>
    ELSE IF IsSpace(Head(s)) THEN <<SP>> \o Collapse(LStrip(s))
    ELSE <<Head(s)>> \o Collapse(Tail(s))

Normalize(s) == Collapse(Strip(s))

\* ------------------------------------------------------------------------
\* Scores: a similarity is the exact rational <<numerator, denominator>> of
\* the float the code computes (0.0 is <<0, 1>>, 100.0 is <<100, 1>>)
\* ------------------------------------------------------------------------

RECURSIVE GCD(_, _)
GCD(a, b) == IF b = 0 THEN a ELSE GCD(b, a % b)

Rat(n, d) == LET g == GCD(n, d) IN <<n \div g, d \div g>>

\* a comparison that also accepts an equal score
ScoreNotBelow(x, y) == x[1] * y[2] >= y[1] * x[2]

\* score > best_score
ScoreGT(x, y) == x[1] * y[2] > y[1] * x[2]

ScoreGE(x, y) == x[1] * y[2] >= y[1] * x[2]

\* the length of the longest common prefix of a[i..] and b[j..] (1-based)
RECURSIVE CommonPrefix(_, _, _, _)
CommonPrefix(a, i, b, j) ==
    IF i > Len(a) \/ j > Len(b) \/ a[i] # b[j] THEN 0
    ELSE 1 + CommonPrefix(a, i + 1, b, j + 1)

\* difflib.SequenceMatcher.find_longest_match without junk: the longest
\* common block, of those the one earliest in a, of those the earliest in b
LongestMatch(a, b) ==
    LET Pairs == (1..Len(a)) \X (1..Len(b))
        K(p)  == CommonPrefix(a, p[1], b, p[2])
        Best(p) == \A q \in Pairs :
                      \/ K(q) < K(p)
                      \/ K(q) = K(p) /\ (q[1] > p[1] \/ (q[1] = p[1] /\ q[2] >= p[2]))
        p == CHOOSE p \in Pairs : Best(p)
    IN  <<p[1], p[2], K(p)>>

\* the total size of difflib's matching blocks
RECURSIVE MatchCount(_, _)
MatchCount(a, b) ==
    IF a = <<>> \/ b = <<>> THEN 0
    ELSE LET m == LongestMatch(a, b)
         IN  IF m[3] = 0 THEN 0
             ELSE m[3]
                  + MatchCount(Upto(a, m[1] - 1), Upto(b, m[2] - 1))
                  + MatchCount(From(a, m[1] + m[3] - 1), From(b, m[2] + m[3] - 1))

\* difflib.SequenceMatcher(None, a, b).ratio() * 100
Ratio100(a, b) ==
    IF Len(a) + Len(b) = 0 THEN <<100, 1>>
    ELSE Rat(200 * MatchCount(a, b), Len(a) + Len(b))

_calculate_similarity(text1, text2) == Ratio100(Normalize(text1), Normalize(text2))

\* ------------------------------------------------------------------------
\* The Matcher's helpers
\* ------------------------------------------------------------------------

\* re.findall(r"[\w]+|[^\s\w]", s): maximal word runs and single other
\* non-space characters
RECURSIVE WordRun(_)
WordRun(s) ==
    IF s # <<>> /\ IsWord(Head(s)) THEN <<Head(s)>> \o WordRun(Tail(s)) ELSE <<>>

RECURSIVE Tokens(_)
Tokens(s) ==
    IF s = <<>> THEN <<>>
    ELSE IF IsSpace(Head(s)) THEN Tokens(Tail(s))
    ELSE IF IsWord(Head(s))
         THEN <<WordRun(s)>> \o Tokens(From(s, Len(WordRun(s))))
    ELSE <<<<Head(s)>>>> \o Tokens(Tail(s))

\* a pattern that is the stripped text itself, with no \s* in it
LiteralPattern(search_text) ==
    IF Strip(search_text) = <<>> THEN <<>> ELSE <<Strip(search_text)>>

\* the token list stands for the pattern: the escaped tokens joined by \s*
\* (an empty list is the empty pattern "")
_generate_flexible_regex(search_text) == Tokens(Strip(search_text))

\* the end (0-based, exclusive) of the pattern's match that starts at i, or -1
RECURSIVE MatchAt(_, _, _)
MatchAt(tokens, s, i) ==
    IF tokens = <<>> THEN i
    ELSE IF StartsWith(From(s, i), Head(tokens))
         THEN LET j == i + Len(Head(tokens))
                  k == IF Len(tokens) = 1 THEN j
                       ELSE Len(s) - Len(LStrip(From(s, j)))
              IN  MatchAt(Tail(tokens), s, k)
    ELSE -1

\* re.finditer(pattern, s, re.DOTALL) for a non-empty pattern: the
\* non-overlapping matches <<start, end>>, left to right
RECURSIVE FindIter(_, _, _)
FindIter(tokens, s, pos) ==
    IF pos >= Len(s) THEN <<>>
    ELSE LET e == MatchAt(tokens, s, pos)
         IN  IF e < 0 THEN FindIter(tokens, s, pos + 1)
             ELSE <<<<pos, e>>>> \o FindIter(tokens, s, e)

\* Patcher._find_best_match: <<matched text (<<>> for None, else <<text>>),
\* line (0 for None), score>>
RECURSIVE BestFrom(_, _, _, _)
BestFrom(search_text, lines, i, best) ==
    LET search_len == Len(SplitLines(search_text))
    IN  IF i > Len(lines) - search_len THEN best
        ELSE LET window == Join(<<NL>>, SubSeq(lines, i + 1, i + search_len))
                 score  == _calculate_similarity(search_text, window)
             IN  IF ScoreGT(score, best[3])
                 THEN BestFrom(search_text, lines, i + 1, <<<<window>>, i + 1, score>>)
                 ELSE BestFrom(search_text, lines, i + 1, best)

_find_best_match(search_text, content) ==
    BestFrom(search_text, SplitLines(content), 0, <<<<>>, 0, <<0, 1>>>>)

\* ------------------------------------------------------------------------
\* Paths, the Ignore Policy and the Hasher
\* ------------------------------------------------------------------------

\* the index of the last "/" of a path, 0 when it has none
RECURSIVE LastSlash(_)
LastSlash(path) ==
    IF path = <<>> THEN 0
    ELSE IF path[Len(path)] = "/" THEN Len(path)
    ELSE LastSlash(Upto(path, Len(path) - 1))

\* Path(path).name
Basename(path) == From(path, LastSlash(path))

\* Path(path).parent: "." for a bare file name
Parent(path) ==
    IF LastSlash(path) = 0 THEN <<".">> ELSE Upto(path, LastSlash(path) - 1)

\* the directories mkdir(parents=True) makes sure exist
RECURSIVE Ancestors(_)
Ancestors(path) ==
    IF LastSlash(path) = 0 THEN {<<".">>}
    ELSE {Parent(path)} \cup Ancestors(Parent(path))

\* the default list written to .patchignore on the first run
DefaultIgnorePatterns ==
    << <<"*", ".", "l", "o", "c", "k">>,
       <<"*", ".", "m", "i", "n", ".", "j", "s">>,
       <<"*", ".", "m", "i", "n", ".", "c", "s", "s">>,
       <<".", "e", "n", "v", "*">>,
       <<"n", "o", "d", "e", "_", "m", "o", "d", "u", "l", "e", "s", "/", "*", "*">>,
       <<"_", "_", "p", "y", "c", "a", "c", "h", "e", "_", "_", "/", "*", "*">>,
       <<"*", ".", "p", "y", "c">>,
       <<".", "g", "i", "t", "/", "*", "*">> >>

\* re.match(pattern_re, s) for pattern_re = the pattern with "." escaped,
\* "*" turned into ".*" and "?" into ".": a match of a prefix of s
RECURSIVE GlobMatch(_, _)
GlobMatch(pattern, s) ==
    IF pattern = <<>> THEN TRUE
    ELSE IF Head(pattern) = "*"
         THEN \E k \in 0..Len(s) : GlobMatch(Tail(pattern), From(s, k))
    ELSE IF Head(pattern) = "?"
         THEN s # <<>> /\ GlobMatch(Tail(pattern), Tail(s))
    ELSE s # <<>> /\ Head(s) = Head(pattern) /\ GlobMatch(Tail(pattern), Tail(s))

\* Patcher._is_ignored
_is_ignored(filepath) ==
    \E i \in 1..Len(DefaultIgnorePatterns) :
        LET pattern == DefaultIgnorePatterns[i]
        IN  IF Contains(pattern, <<"*">>)
            THEN GlobMatch(pattern, filepath)
            ELSE Contains(filepath, pattern)

\* a file system: a function from the paths that exist to their bytes
Exists(files, path) == path \in DOMAIN files

\* the bytes of a path as an option: <<>> when absent, <<bytes>> otherwise
Get(files, path) == IF Exists(files, path) THEN <<files[path]>> ELSE <<>>

WriteFile(files, path, data) ==
    [q \in DOMAIN files \cup {path} |-> IF q = path THEN data ELSE files[q]]

Unlink(files, path) == [q \in DOMAIN files \ {path} |-> files[q]]

\* the longest file name the file system takes
NAME_MAX == 255

\* Path(path).exists() raises OSError (ENAMETOOLONG, which pathlib does not
\* swallow) when a component of the path is longer than NAME_MAX
ExistsRaises(path) ==
    \E i \in 1..(Len(path) - NAME_MAX) :
        \A j \in i..(i + NAME_MAX) : path[j] # "/"

\* read_text(encoding='utf-8') raises on bytes that are not UTF-8
Readable(data) == ~Contains(data, <<BAD>>)

\* Path.read_text(encoding='utf-8') of readable data: the text layer's
\* universal newlines turn "\r\n" and a lone "\r" into "\n"
RECURSIVE ReadText(_)
ReadText(data) ==
    IF data = <<>> THEN <<>>
    ELSE IF Head(data) # CR THEN <<Head(data)>> \o ReadText(Tail(data))
    ELSE IF Len(data) > 1 /\ data[2] = NL THEN <<NL>> \o ReadText(Tail(Tail(data)))
    ELSE <<NL>> \o ReadText(Tail(data))

\* SHA-256 is taken to be collision-free: the digest stands for the bytes
Sha256(data) == <<"sha256", data>>

\* Patcher._calculate_hash
_calculate_hash(files, path) ==
    IF ~Exists(files, path) THEN <<"EMPTY">> ELSE Sha256(files[path])

\* ------------------------------------------------------------------------
\* The Analyzer
\* ------------------------------------------------------------------------

SIMILARITY_THRESHOLD == 80

MAX_HISTORY == 50

\* _clean_old_backups(self, max_age_days: int = 7), in seconds of 86400 a day
MAX_AGE_DAYS == 7

DAY_SECONDS == 86400

\* an absent Optional value; a present one is <<value>>
None == <<>>

\* Python truthiness of an Optional[str]: neither None nor ""
Truthy(opt) == opt # None /\ opt[1] # <<>>

\* a PatchBlock as the Parser returns it
PatchBlock(filename, search_block, replace_block) ==
    [filename |-> filename, search_block |-> search_block,
     replace_block |-> replace_block, valid_match |-> None,
     line_number |-> 0, match_quality |-> <<0, 1>>, enabled |-> TRUE]

\* the number of characters of the file a total miss shows as its context
PREVIEW_CHARS == 500

\* error_context: None, the lines of a context window, or a piece of the file
NoContext == [kind |-> "none", lines |-> <<>>, text |-> <<>>]

\* Patcher._get_context_window(content, start_line, window_size): one entry
\* per line "{marker} {i+1:4d} | {lines[i]}" for i in range(start, end)
_get_context_window(content, start_line, window_size) ==
    LET lines == SplitLines(content)
        half  == window_size \div 2
        start == IF start_line - half > 0 THEN start_line - half ELSE 0
        end   == Min(Len(lines), start_line + half)
    IN  [kind |-> "window",
         lines |-> [k \in 1..(IF end > start THEN end - start ELSE 0) |->
                      LET i == start + k - 1
                      IN  [marker |-> IF i = start_line THEN ">>>" ELSE "   ",
                           number |-> i + 1,
                           text |-> lines[i + 1]]],
         text |-> <<>>]

\* content[:PREVIEW_CHARS]
Preview(content) ==
    [kind |-> "text", lines |-> <<>>, text |-> Upto(content, Min(Len(content), PREVIEW_CHARS))]

\* a PatchStatus: its status, the row of the decision table that produced it
\* (the message), line_number (0 for None), similarity_score, and the
\* similarity that the fuzzy and the no-match messages print
PatchStatus(filename, status, row, line_number, similarity_score) ==
    [filename |-> filename, status |-> status, row |-> row,
     line_number |-> line_number, similarity_score |-> similarity_score,
     best_similarity |-> None, error_context |-> NoContext]

\* a resolution that also enables the block
ResolveEnables(block, found, line_num, quality) ==
    [block EXCEPT !.valid_match = <<found>>, !.line_number = line_num,
                  !.match_quality = quality, !.enabled = TRUE]

Resolve(block, found, line_num, quality) ==
    [block EXCEPT !.valid_match = <<found>>, !.line_number = line_num,
                  !.match_quality = quality]

\* one iteration of the loop of Patcher.analyze_blocks: the block as the
\* iteration leaves it and the PatchStatus it appends; the status "raised"
\* stands for an iteration that raises and appends nothing
AnalyzeBlock(block, files, dirs) ==
    LET f       == block.filename
        search  == block.search_block
        content == ReadText(files[f])
        Out(b, status, row, line, score) ==
            [block |-> b, result |-> PatchStatus(f, status, row, line, score)]
        Said(out, similarity) ==
            [out EXCEPT !.result.best_similarity = <<similarity>>]
        With(out, context) ==
            [out EXCEPT !.result.error_context = context]
    IN  IF _is_ignored(f) THEN Out(block, "error", "ignored", 0, None)
        ELSE IF ExistsRaises(f) THEN Out(block, "raised", "oserror", 0, None)
        ELSE IF ~Exists(files, f)
             THEN IF IsBlank(search)
                  THEN IF Parent(f) \notin dirs
                       THEN Out(block, "warning", "create_mkdir", 0, None)
                       ELSE Out(block, "success", "create", 0, None)
                  ELSE Out(block, "error", "missing", 0, None)
        ELSE IF IsBlank(block.replace_block)
             THEN Out(block, "warning", "delete", 0, None)
        ELSE IF ~Readable(content)
             THEN Out(block, "error", "unreadable", 0, None)
        ELSE IF IsBlank(search)
             THEN Out(block, "error", "empty_search", 0, None)
        ELSE IF Contains(content, search)
             THEN LET count    == Count(content, search)
                      line_num == CountNL(Upto(content, Find(content, search))) + 1
                  IN  IF count = 1
                      THEN Out(Resolve(block, search, line_num, <<100, 1>>),
                               "success", "exact", line_num, <<<<100, 1>>>>)
                      ELSE With(Out(block, "error", "ambiguous_exact", 0, None),
                                _get_context_window(content, line_num - 1, 15))
        ELSE LET regex_pattern == _generate_flexible_regex(search)
                 matches == IF regex_pattern = <<>> THEN <<>>
                            ELSE FindIter(regex_pattern, content, 0)
             IN  IF Len(matches) = 1
                 THEN LET found_text == SubSeq(content, matches[1][1] + 1, matches[1][2])
                          line_num   == CountNL(Upto(content, matches[1][1])) + 1
                      IN  Out(Resolve(block, found_text, line_num, <<95, 1>>),
                              "warning", "regex", line_num, <<<<95, 1>>>>)
                 ELSE IF Len(matches) > 1
                      THEN With(Out(block, "error", "ambiguous_regex", 0, None),
                                _get_context_window(content,
                                    CountNL(Upto(content, matches[1][1])), 15))
                 ELSE LET best == _find_best_match(search, content)
                          best_match == best[1]
                          line_num   == best[2]
                          similarity == best[3]
                      IN  IF ScoreGE(similarity, <<SIMILARITY_THRESHOLD, 1>>)
                          THEN With(Said(Out(Resolve(block, best_match[1], line_num,
                                                     similarity),
                                             "warning", "fuzzy", line_num, <<similarity>>),
                                         similarity),
                                    _get_context_window(content, line_num - 1, 15))
                          ELSE With(Said(Out(block, "error", "no_match", 0, None),
                                         similarity),
                                    IF line_num # 0
                                    THEN _get_context_window(content, line_num - 1, 20)
                                    ELSE Preview(content))

\* the loop of Patcher.analyze_blocks, every iteration taken on its own
AnalyzePass(bs, files, dirs) ==
    [i \in 1..Len(bs) |-> AnalyzeBlock(bs[i], files, dirs)]

\* the iterations of the pass that raise
AnalyzeRaisesAt(pass) == {i \in 1..Len(pass) : pass[i].result.status = "raised"}

\* Patcher.analyze_blocks raises
AnalyzeRaises(pass) == AnalyzeRaisesAt(pass) # {}

\* Patcher.analyze_blocks: the blocks as the pass leaves them; the blocks
\* from the first iteration that raises on are left as they were
AnalyzedBlocks(bs, pass) ==
    [i \in 1..Len(bs) |->
        IF \E k \in AnalyzeRaisesAt(pass) : k <= i THEN bs[i] ELSE pass[i].block]

\* Patcher.analyze_blocks: the list it returns
AnalyzeResults(pass) == [i \in 1..Len(pass) |-> pass[i].result]

\* ------------------------------------------------------------------------
\* The Transactor: apply
\* ------------------------------------------------------------------------

\* BACKUP_DIR / f"{filepath.name}_{timestamp}.bak"
BackupPath(path, timestamp) == <<Basename(path), timestamp>>

\* one entry of a record's "files" list; a key the code leaves out is None
FileEntry(path, action, backup, post_hash, pre_hash, line_number) ==
    [path |-> path, action |-> action, backup |-> backup,
     post_hash |-> post_hash, pre_hash |-> pre_hash, line_number |-> line_number]

\* a filter that keeps every block
AllBlocks(bs) == bs

\* [b for b in blocks if b.enabled]
RECURSIVE EnabledBlocks(_)
EnabledBlocks(bs) ==
    IF bs = <<>> THEN <<>>
    ELSE (IF Head(bs).enabled THEN <<Head(bs)>> ELSE <<>>) \o EnabledBlocks(Tail(bs))

\* a pre-flight validation that inspects the first block only
PreflightFirstOnly(bs, files) ==
    /\ bs # <<>>
    /\ Exists(files, bs[1].filename)
    /\ ~Truthy(bs[1].valid_match)
    /\ ~IsBlank(bs[1].search_block)

\* the pre-flight validation raises "Safety halt"
PreflightHalts(bs, files) ==
    \E i \in 1..Len(bs) :
        /\ Exists(files, bs[i].filename)
        /\ ~Truthy(bs[i].valid_match)
        /\ ~IsBlank(bs[i].search_block)

\* filepath.exists() raises in the pre-flight validation
PreflightOSError(bs) == \E i \in 1..Len(bs) : ExistsRaises(bs[i].filename)

\* shutil.copy(filepath, backup_path): the first statement of the delete and
\* of the modify branch; a file that does not exist is created with no backup
BackupFile(st, block, timestamp) ==
    LET f == block.filename
    IN  IF Exists(st.files, f)
        THEN [st EXCEPT !.backups = WriteFile(@, BackupPath(f, timestamp), st.files[f])]
        ELSE st

\* one iteration of the "Apply changes" loop on the state st = [files, dirs,
\* backups, entries, modified_files, raised]: the backup, then the mutation
ApplyBlock(st, block, timestamp) ==
    LET f  == block.filename
        bp == BackupPath(f, timestamp)
        backed == BackupFile(st, block, timestamp)
    IN  IF ~Exists(st.files, f)
        THEN LET written == WriteFile(st.files, f, block.replace_block)
             IN  [st EXCEPT
                    !.dirs = @ \cup Ancestors(f),
                    !.files = written,
                    !.entries = Append(@, FileEntry(f, "create", None,
                                    _calculate_hash(written, f), None, 0)),
                    !.modified_files = Append(@, f)]
        ELSE IF IsBlank(block.replace_block)
             THEN [backed EXCEPT
                    !.files = Unlink(@, f),
                    !.entries = Append(@, FileEntry(f, "delete", <<bp>>, None,
                                    _calculate_hash(backed.backups, bp), 0)),
                    !.modified_files = Append(@, f)]
        ELSE IF ~Readable(st.files[f])
             THEN [backed EXCEPT !.raised = TRUE]
        ELSE IF Truthy(block.valid_match)
             THEN LET content     == ReadText(st.files[f])
                      new_content == ReplaceFirst(content, block.valid_match[1],
                                                  block.replace_block)
                      written == WriteFile(st.files, f, new_content)
                  IN  [backed EXCEPT
                         !.files = written,
                         !.entries = Append(@, FileEntry(f, "modify", <<bp>>,
                                         _calculate_hash(written, f), None,
                                         block.line_number)),
                         !.modified_files = Append(@, f)]
        ELSE backed

\* the "Apply changes" loop: it stops at the first iteration that raises
RECURSIVE ApplyLoop(_, _, _)
ApplyLoop(st, bs, timestamp) ==
    IF bs = <<>> \/ st.raised THEN st
    ELSE ApplyLoop(ApplyBlock(st, Head(bs), timestamp), Tail(bs), timestamp)

\* history[:MAX_HISTORY]: a cut that keeps the oldest records
RetainOldest(log) ==
    IF Len(log) > MAX_HISTORY THEN SubSeq(log, 1, MAX_HISTORY) ELSE log

\* history[-MAX_HISTORY:] when the log is longer than MAX_HISTORY
Retain(log) ==
    IF Len(log) > MAX_HISTORY
    THEN SubSeq(log, Len(log) - MAX_HISTORY + 1, Len(log))
    ELSE log

\* a commit that does not depend on how the apply loop ended
CommitAlways(log, raised, history_entry) == Retain(Append(log, history_entry))

\* a commit that leaves out a record with no entry
CommitChanges(log, raised, history_entry) ==
    IF raised \/ history_entry.files = <<>> THEN log
    ELSE Retain(Append(log, history_entry))

\* the commit: a call that raised never reaches it
Commit(log, raised, history_entry) ==
    IF raised THEN log ELSE Retain(Append(log, history_entry))

\* what the caller of apply_patches sees raised
SafetyHalt == "Safety halt"

DecodeError == "UnicodeDecodeError"

NameTooLong == "OSError"

\* what the pre-flight validation raises on the enabled blocks bs: the
\* exception of the first block it stops at, "" when it passes
RECURSIVE PreflightRaised(_, _)
PreflightRaised(bs, files) ==
    IF bs = <<>> THEN ""
    ELSE IF ExistsRaises(Head(bs).filename) THEN NameTooLong
    ELSE IF PreflightHalts(<<Head(bs)>>, files) THEN SafetyHalt
    ELSE PreflightRaised(Tail(bs), files)

\* Patcher.apply_patches up to the commit: the state the call leaves
ApplyPatches(bs, files, dirs, backups, timestamp) ==
    LET enabled == EnabledBlocks(bs)
        st0 == [files |-> files, dirs |-> dirs, backups |-> backups,
                entries |-> <<>>, modified_files |-> <<>>, raised |-> FALSE]
    IN  IF PreflightHalts(enabled, files) \/ PreflightOSError(enabled)
        THEN [st0 EXCEPT !.raised = TRUE]
        ELSE ApplyLoop(st0, enabled, timestamp)

\* ------------------------------------------------------------------------
\* The Transactor: undo
\* ------------------------------------------------------------------------

\* the verify loop of Patcher.undo_last: the message of the first modify
\* entry it refuses, "" when it refuses none
RECURSIVE VerifyEntries(_, _)
VerifyEntries(entries, files) ==
    IF entries = <<>> THEN ""
    ELSE LET fentry == Head(entries)
         IN  IF fentry.action = "modify" /\ ~Exists(files, fentry.path)
             THEN "no longer exists"
             ELSE IF fentry.action = "modify"
                     /\ _calculate_hash(files, fentry.path) # fentry.post_hash
             THEN "STOP"
             ELSE VerifyEntries(Tail(entries), files)

\* shutil.copy(src, dst) raises when the directory of dst is missing
CopyRaises(dst, dirs) == Parent(dst) \notin dirs

\* one iteration of the restore loop on st = [files, restored_files, raised]
RestoreEntry(st, fentry, dirs, backups) ==
    LET f == fentry.path
    IN  IF fentry.action = "create"
        THEN IF Exists(st.files, f)
             THEN [st EXCEPT !.files = Unlink(@, f),
                             !.restored_files = Append(@, f)]
             ELSE st
        ELSE IF Exists(backups, fentry.backup[1])
             THEN IF CopyRaises(f, dirs)
                  THEN [st EXCEPT !.raised = TRUE]
                  ELSE [st EXCEPT
                          !.files = WriteFile(@, f, backups[fentry.backup[1]]),
                          !.restored_files = Append(@, f)]
        ELSE st

\* the restore loop: it stops at the first iteration that raises
RECURSIVE RestoreLoop(_, _, _, _)
RestoreLoop(st, entries, dirs, backups) ==
    IF entries = <<>> \/ st.raised THEN st
    ELSE RestoreLoop(RestoreEntry(st, Head(entries), dirs, backups),
                     Tail(entries), dirs, backups)

\* a pop of the oldest record
HistoryPopFirst(log) == Tail(log)

\* history.pop(): the log without its most recent record
HistoryPop(log) == Upto(log, Len(log) - 1)

\* Patcher.undo_last: the message it returns, the restored list, and the
\* files and the History Log as the call leaves them
UndoLast(log, files, dirs, backups) ==
    IF log = <<>>
    THEN [message |-> "No history to undo.", restored_files |-> <<>>,
          files |-> files, history |-> log]
    ELSE LET last_entry == log[Len(log)]
             popped  == HistoryPop(log)
             refusal == VerifyEntries(last_entry.files, files)
             st == RestoreLoop([files |-> files, restored_files |-> <<>>,
                                raised |-> FALSE],
                               last_entry.files, dirs, backups)
         IN  IF refusal # ""
             THEN [message |-> refusal, restored_files |-> <<>>,
                   files |-> files, history |-> log]
             ELSE IF st.raised
             THEN [message |-> "Error during undo", restored_files |-> st.restored_files,
                   files |-> st.files, history |-> log]
             ELSE [message |-> "Successfully reverted changes.",
                   restored_files |-> st.restored_files,
                   files |-> st.files, history |-> popped]

\* ------------------------------------------------------------------------
\* Patcher.parse_response and Patcher.get_history_summary
\* ------------------------------------------------------------------------

\* the literals of the pattern
\*   FILE:\s*(.*?)\n<<<<< SEARCH\n(.*?)\n=====\n(.*?)\n>>>>>
FILE_MARK == <<"F", "I", "L", "E", ":">>

SEARCH_MARK == <<NL, "<", "<", "<", "<", "<", SP, "S", "E", "A", "R", "C", "H", NL>>

SEP_MARK == <<NL, "=", "=", "=", "=", "=", NL>>

END_MARK == <<NL, ">", ">", ">", ">", ">">>

\* the rest of the pattern matches when "\n<<<<< SEARCH\n" is tried at q:
\* the mark is there, "\n=====\n" follows it somewhere and "\n>>>>>" follows that
\* (both groups are lazy and, with re.DOTALL, match any text)
RestMatches(text, q) ==
    /\ StartsWith(From(text, q), SEARCH_MARK)
    /\ LET s == FindFrom(text, SEP_MARK, q + Len(SEARCH_MARK))
       IN  s >= 0 /\ FindFrom(text, END_MARK, s + Len(SEP_MARK)) >= 0

\* the match of the pattern that starts at the "FILE:" at p, <<>> when there is
\* none: \s* is greedy and gives whitespace back only when no match exists
\* with all of it; the file name group is lazy and spans lines
MatchUnit(text, p) ==
    LET after == p + Len(FILE_MARK)
        w  == Len(From(text, after)) - Len(LStrip(From(text, after)))
        Q  == {q \in after..Len(text) : RestMatches(text, q)}
        hi == {q \in Q : q >= after + w}
        q  == IF hi # {} THEN CHOOSE x \in hi : \A y \in hi : x <= y
              ELSE CHOOSE x \in Q : \A y \in Q : y <= x
        start == IF hi # {} THEN after + w ELSE q
        s  == FindFrom(text, SEP_MARK, q + Len(SEARCH_MARK))
        e  == FindFrom(text, END_MARK, s + Len(SEP_MARK))
    IN  IF Q = {} THEN <<>>
        ELSE <<[fname   |-> SubSeq(text, start + 1, q),
                search  |-> SubSeq(text, q + Len(SEARCH_MARK) + 1, s),
                replace |-> SubSeq(text, s + Len(SEP_MARK) + 1, e),
                end     |-> e + Len(END_MARK)]>>

\* pattern.findall(text) from pos on: the matches left to right, a scan
\* resuming where the last match ended
RECURSIVE FindAll(_, _)
FindAll(text, pos) ==
    LET p == FindFrom(text, FILE_MARK, pos)
    IN  IF p < 0 THEN <<>>
        ELSE LET m == MatchUnit(text, p)
             IN  IF m = <<>> THEN FindAll(text, p + 1)
                 ELSE <<m[1]>> \o FindAll(text, m[1].end)

\* the loop of parse_response: the file name is stripped, a match with an
\* empty or an absolute name is skipped
BlocksOf(matches) ==
    LET Keep(m) == Strip(m.fname) # <<>> /\ Head(Strip(m.fname)) # "/"
        F[i \in 0..Len(matches)] ==
            IF i = 0 THEN <<>>
            ELSE F[i - 1] \o (IF Keep(matches[i])
                              THEN <<PatchBlock(Strip(matches[i].fname),
                                                matches[i].search, matches[i].replace)>>
                              ELSE <<>>)
    IN  F[Len(matches)]

\* Patcher.parse_response(text)
parse_response(text) == BlocksOf(FindAll(text, 0))

\* history[-limit:] for limit >= 0: -0 is 0, the slice is then the whole list
LastSlice(log, limit) ==
    IF limit = 0 THEN log
    ELSE From(log, IF Len(log) > limit THEN Len(log) - limit ELSE 0)

\* one summary of get_history_summary
Summary(entry) ==
    [timestamp |-> entry.timestamp,
     files_changed |-> Len(entry.files),
     actions |-> [i \in 1..Len(entry.files) |-> entry.files[i].action],
     filenames |-> [i \in 1..Len(entry.files) |-> entry.files[i].path]]

\* Patcher.get_history_summary(limit)
get_history_summary(log, limit) ==
    LET recent == IF Len(log) > limit THEN LastSlice(log, limit) ELSE log
    IN  [i \in 1..Len(recent) |-> Summary(recent[Len(recent) + 1 - i])]

\* ------------------------------------------------------------------------
\* The working directory, the inputs and the bounds
\* ------------------------------------------------------------------------

\* two files with the same basename in different directories, and a path
\* that the default Ignore Policy protects
PathAX == <<"a", "/", "x">>

PathBX == <<"b", "/", "x">>

PathEnv == <<".", "e", "n", "v">>

\* a file name of NAME_MAX + 1 characters
PathLong == [i \in 1..(NAME_MAX + 1) |-> "n"]

Paths == {PathAX, PathBX, PathEnv, PathLong}

\* the files the user edits
EditPaths == {PathAX, PathBX}

\* file contents: "a=b\nc", "a =b\na= b", "a=b\r\nc" (TextK1 with a CRLF line
\* ending) and bytes that are not UTF-8
TextK1 == <<"a", "=", "b", NL, "c">>

TextK2 == <<"a", SP, "=", "b", NL, "a", "=", SP, "b">>

TextCRLF == <<"a", "=", "b", CR, NL, "c">>

TextBad == <<BAD>>

Contents == {TextK1, TextK2, TextCRLF, TextBad}

\* the patch blocks the Parser hands over
Templates ==
    { PatchBlock(PathAX, <<"a", "=", "b">>, <<"c">>),
      PatchBlock(PathAX, <<"c">>, <<"b">>),
      PatchBlock(PathAX, <<>>, <<>>),
      PatchBlock(PathAX, <<"a">>, <<SP>>),
      PatchBlock(PathAX, <<>>, <<"b">>),
      PatchBlock(PathAX, <<"a", SP, "=", "b">>, <<"b">>),
      PatchBlock(PathAX, <<"a", "=", "b", "b">>, <<"b">>),
      PatchBlock(PathAX, <<"a">>, <<"b">>),
      PatchBlock(PathAX, <<"c">>, <<"c", "=">>),
      PatchBlock(PathBX, <<SP>>, <<"b">>),
      PatchBlock(PathBX, <<"a", "=", "b">>, <<"c">>),
      PatchBlock(PathEnv, <<>>, <<"b">>),
      PatchBlock(PathLong, <<>>, <<"b">>) }

BlockAX(search_block, replace_block) == PatchBlock(PathAX, search_block, replace_block)

\* lists of two blocks: two edits of one file, an edit and the deletion of one
\* file, edits of two files with the same basename, a creation and an edit,
\* the creation and the deletion of one file
BlockPairs ==
    { <<BlockAX(<<"a", "=", "b">>, <<"c">>), BlockAX(<<"c">>, <<"b">>)>>,
      <<BlockAX(TextK1, TextK2), BlockAX(<<>>, <<>>)>>,
      <<BlockAX(<<"a", "=", "b">>, <<"c">>),
        PatchBlock(PathBX, <<"a", "=", "b">>, <<"c">>)>>,
      <<PatchBlock(PathBX, <<SP>>, <<"b">>), BlockAX(<<"c">>, <<"b">>)>>,
      <<PatchBlock(PathBX, <<SP>>, <<"b">>), PatchBlock(PathBX, <<>>, <<>>)>> }

\* the lists Patcher.parse_response hands the caller
BlockLists == {<<t>> : t \in Templates} \cup BlockPairs

\* the lists applied to a full History Log: an edit, a creation, nothing to
\* do, two edits of one file, and a creation and an edit
FullLogLists ==
    { <<BlockAX(<<"a", "=", "b">>, <<"c">>)>>,
      <<PatchBlock(PathBX, <<SP>>, <<"b">>)>>,
      <<BlockAX(<<>>, <<"b">>)>>,
      <<BlockAX(<<"a", "=", "b">>, <<"c">>), BlockAX(<<"c">>, <<"b">>)>>,
      <<PatchBlock(PathBX, <<SP>>, <<"b">>), BlockAX(<<"c">>, <<"b">>)>> }

\* a FILE unit as the response format writes it:
\* 'FILE: <path>\n<<<<< SEARCH\n<search>\n=====\n<replace>\n>>>>>'
UnitText(path, search, replace) ==
    FILE_MARK \o <<SP>> \o path \o SEARCH_MARK \o search \o SEP_MARK \o replace
        \o END_MARK

\* a segment of a response: a complete unit with search "b" and replace "c"
\* on a line of its own ...
Unit(path) ==
    [kind |-> "unit", path |-> path,
     text |-> UnitText(path, <<"b">>, <<"c">>) \o <<NL>>]

\* ... the stray line "FILE: q", a unit that stops after its search text, a
\* unit whose FILE line is followed by the line "<<<<< SEARCH " (a trailing
\* blank) before the unit's own marker, and the line "x"
Stray == [kind |-> "stray", path |-> <<"q">>, text |-> FILE_MARK \o <<SP, "q", NL>>]

Unterminated ==
    [kind |-> "unterminated", path |-> <<"q">>,
     text |-> FILE_MARK \o <<SP, "q">> \o SEARCH_MARK \o <<"b", NL>>]

Sloppy ==
    [kind |-> "sloppy", path |-> <<"a">>,
     text |-> FILE_MARK \o <<SP, "a">> \o Upto(SEARCH_MARK, Len(SEARCH_MARK) - 1)
                \o <<SP>> \o SEARCH_MARK \o <<"b">> \o SEP_MARK \o <<"c">>
                \o END_MARK \o <<NL>>]

PlainText == [kind |-> "text", path |-> <<>>, text |-> <<"x", NL>>]

\* units with the paths "a", " b " (to be trimmed), "/a" (absolute) and ""
Segments ==
    { Unit(<<"a">>), Unit(<<SP, "b", SP>>), Unit(<<"/", "a">>), Unit(<<>>),
      Stray, Unterminated, Sloppy, PlainText }

\* the segments of a response, one after the other
RECURSIVE Concat(_)
Concat(segments) ==
    IF segments = <<>> THEN <<>> ELSE Head(segments).text \o Concat(Tail(segments))

\* the responses handed to parse_response: up to MaxSegments segments
MaxSegments == 3

Responses ==
    {[segments |-> ss, text |-> Concat(ss)] :
        ss \in UNION {[1..n -> Segments] : n \in 0..MaxSegments}}

\* no response: the caller holds blocks already
NoResponse == [segments |-> <<>>, text |-> <<>>]

\* files for the fuzzy strategy: "ab\nab" (two equal lines), "aab\nab" (the
\* second line is also the end of the first) and eight lines "c" before "ab"
TextTie == <<"a", "b", NL, "a", "b">>

TextEarlier == <<"a", "a", "b", NL, "a", "b">>

TextLong ==
    <<"c", NL, "c", NL, "c", NL, "c", NL, "c", NL, "c", NL, "c", NL, "c", NL, "a", "b">>

MatchContents == {TextTie, TextEarlier, TextLong}

\* blocks on a/x with replace_block "c": a search close to the line "ab", one
\* with more lines than the files of two lines, one that shares no character
\* with them, one that is the line "ab" and one that is "ab" with a blank
MatchLists ==
    { <<BlockAX(<<"a", "b", "_">>, <<"c">>)>>,
      <<BlockAX(<<"a", "_", NL, "b", NL, "c">>, <<"c">>)>>,
      <<BlockAX(<<"_">>, <<"c">>)>>,
      <<BlockAX(<<"a", "b">>, <<"c">>)>>,
      <<BlockAX(<<"a", SP, "b">>, <<"c">>)>> }

\* the limits handed to get_history_summary
MaxLimit == 2

\* the number of apply calls and external edits of one run, and the number
\* of undo calls that revert a transaction
MaxOps == 2

MaxUndos == 1

\* ------------------------------------------------------------------------
\* State
\* ------------------------------------------------------------------------

VARIABLES
    fs,        \* the working directory: path -> bytes, for the paths that exist
    dirs,      \* the directories that exist
    backups,   \* the Backup Store: backup path -> bytes
    history,   \* the History Log on disk
    clock,     \* int(time.time()) at the latest call that read it
    blocks,    \* the caller's list of PatchBlock objects
    results,   \* the list the latest analyze pass returned (<<>> before one)
    ret,       \* the latest call and what it returned
    snaps,     \* per record of the log: the files before and after its apply
    applies,   \* the apply calls so far
    edits,     \* the external edits so far
    undos,     \* the undo calls that reverted a transaction so far
    response,  \* the response text the caller holds, and its segments
    handoff    \* the receiver's file, the session's incoming_patch, and where
               \* the receiver thread and the script run of the session are

vars == <<fs, dirs, backups, history, clock, blocks, results, ret, snaps,
          applies, edits, undos, response, handoff>>

Returned(op, raised, message, files) ==
    [op |-> op, raised |-> raised, message |-> message, files |-> files]

\* the texts the browser extension posts
PatchTexts == {<<"a">>, <<"b">>, <<"c">>}

\* no POST was received: there is no .incoming_patch.txt, the session's
\* incoming_patch is "" (app.py line 256), the receiver thread waits for a
\* request and no script run is in the auto-load block
NoHandoff ==
    [file |-> None, incoming_patch |-> <<>>, ui |-> "idle",
     receiver |-> "idle", text |-> <<>>, latest |-> None, posts |-> 0]

\* a first run in a directory that holds a/x, after Patcher.parse_response
\* returned the caller's blocks
InitCommon ==
    /\ fs = (PathAX :> TextK1)
    /\ dirs = {<<".">>, <<"a">>}
    /\ backups = <<>>
    /\ results = <<>>
    /\ ret = Returned("parse", FALSE, "", <<>>)
    /\ applies = 0
    /\ edits = 0
    /\ undos = 0
    /\ handoff = NoHandoff

Init ==
    /\ InitCommon
    /\ response = NoResponse
    /\ blocks \in BlockLists
    /\ history = <<>>
    /\ snaps = <<>>
    /\ clock = 0

\* a log at its cap: MAX_HISTORY applies of a list with no enabled block,
\* one per second
InitFull ==
    /\ InitCommon
    /\ response = NoResponse
    /\ blocks \in FullLogLists
    /\ history = [i \in 1..MAX_HISTORY |->
                    [timestamp |-> i, files |-> <<>>, description |-> ""]]
    /\ snaps = [i \in 1..MAX_HISTORY |-> [pre |-> fs, post |-> fs]]
    /\ clock = MAX_HISTORY

\* a run in a directory whose a/x holds one of the files for the fuzzy
\* strategy
InitMatch ==
    /\ fs \in {(PathAX :> c) : c \in MatchContents}
    /\ dirs = {<<".">>, <<"a">>}
    /\ backups = <<>>
    /\ results = <<>>
    /\ ret = Returned("parse", FALSE, "", <<>>)
    /\ applies = 0
    /\ edits = 0
    /\ undos = 0
    /\ blocks \in MatchLists
    /\ history = <<>>
    /\ snaps = <<>>
    /\ clock = 0
    /\ response = NoResponse
    /\ handoff = NoHandoff

\* the caller holds a response and has not parsed it yet
InitParse ==
    /\ fs = (PathAX :> TextK1)
    /\ dirs = {<<".">>, <<"a">>}
    /\ backups = <<>>
    /\ results = <<>>
    /\ ret = Returned("init", FALSE, "", <<>>)
    /\ applies = 0
    /\ edits = 0
    /\ undos = 0
    /\ blocks = <<>>
    /\ history = <<>>
    /\ snaps = <<>>
    /\ clock = 0
    /\ response \in Responses
    /\ handoff = NoHandoff

\* ------------------------------------------------------------------------
\* Actions
\* ------------------------------------------------------------------------

\* Patcher.analyze_blocks(blocks)
Analyze ==
    \E pass \in {AnalyzePass(blocks, fs, dirs)} :
        /\ blocks' = AnalyzedBlocks(blocks, pass)
        /\ IF AnalyzeRaises(pass)
           THEN /\ results' = results
                /\ ret' = Returned("analyze", TRUE, NameTooLong, <<>>)
           ELSE /\ results' = AnalyzeResults(pass)
                /\ ret' = Returned("analyze", FALSE, "", <<>>)
        /\ UNCHANGED <<fs, dirs, backups, history, clock, snaps, applies, edits, undos, response, handoff>>

\* the caller's selection
Selections(bs) == [1..Len(bs) -> BOOLEAN]

\* block.enabled = checkbox, for every block
Select(bs, sel) == [i \in 1..Len(bs) |-> [bs[i] EXCEPT !.enabled = sel[i]]]

\* the caller sets the enabled flags and calls Patcher.apply_patches(blocks)
\* at the second now
Apply(now, sel) ==
    /\ applies + edits < MaxOps
    /\ \E st \in {ApplyPatches(Select(blocks, sel), fs, dirs, backups, now)} :
        LET history_entry == [timestamp |-> now, files |-> st.entries, description |-> ""]
        IN
        /\ applies' = applies + 1
        /\ clock' = now
        /\ fs' = st.files
        /\ dirs' = st.dirs
        /\ backups' = st.backups
        /\ history' = Commit(history, st.raised, history_entry)
        /\ IF st.raised
           THEN /\ snaps' = snaps
                /\ ret' = Returned("apply", TRUE,
                                   LET halted == PreflightRaised(
                                           EnabledBlocks(Select(blocks, sel)), fs)
                                   IN  IF halted # "" THEN halted ELSE DecodeError,
                                   <<>>)
           ELSE /\ snaps' = Retain(Append(snaps, [pre |-> fs, post |-> st.files]))
                /\ ret' = Returned("apply", FALSE, "", st.modified_files)
        /\ blocks' = Select(blocks, sel)
        /\ UNCHANGED <<results, edits, undos, response, handoff>>

\* Patcher.undo_last(), while no more than limit of its calls have dropped a
\* record
UndoUpTo(limit) ==
    \E r \in {UndoLast(history, fs, dirs, backups)} :
        /\ undos' = IF r.history = history THEN undos ELSE undos + 1
        /\ undos' <= limit
        /\ fs' = r.files
        /\ history' = r.history
        /\ snaps' = Upto(snaps, Len(r.history))
        /\ ret' = Returned("undo", FALSE, r.message, r.restored_files)
        /\ UNCHANGED <<dirs, backups, clock, blocks, results, applies, edits, response, handoff>>

\* Patcher.undo_last()
Undo == UndoUpTo(MaxUndos)

\* Patcher._clean_old_backups(max_age_days) at the time now: the backups that
\* are left, when written[p] is the time backup p was written
_clean_old_backups(stored, written, now) ==
    LET cutoff == now - MAX_AGE_DAYS * DAY_SECONDS
        kept == {p \in DOMAIN stored : ~(written[p] < cutoff)}
    IN  [p \in kept |-> stored[p]]

\* Patcher.__init__ in a later session: a new engine is constructed on the
\* same directory once every backup there is has passed the retention age (a
\* backup is written no later than the clock; a construction that finds no
\* backup changes nothing)
Reopen ==
    /\ DOMAIN backups # {}
    /\ clock' = clock + MAX_AGE_DAYS * DAY_SECONDS + 1
    /\ backups' = _clean_old_backups(backups, [p \in DOMAIN backups |-> p[2]], clock')
    /\ ret' = Returned("init", FALSE, "", <<>>)
    /\ UNCHANGED <<fs, dirs, history, blocks, results, snaps, applies, edits,
                   undos, response, handoff>>

\* the user or another process writes or removes a file of the working
\* directory
ExternalEdit(path, data) ==
    /\ applies + edits < MaxOps
    /\ edits' = edits + 1
    /\ Get(fs, path) # data
    /\ fs' = IF data = None THEN Unlink(fs, path) ELSE WriteFile(fs, path, data[1])
    /\ dirs' = IF data = None THEN dirs ELSE dirs \cup Ancestors(path)
    /\ ret' = Returned("edit", FALSE, "", <<path>>)
    /\ UNCHANGED <<backups, history, clock, blocks, results, snaps, applies, undos, response, handoff>>

\* the user or another process removes an empty directory of the working
\* directory
ExternalRmdir(d) ==
    /\ applies + edits < MaxOps
    /\ edits' = edits + 1
    /\ d \in dirs
    /\ \A p \in DOMAIN fs : Parent(p) # d
    /\ dirs' = dirs \ {d}
    /\ ret' = Returned("edit", FALSE, "", <<>>)
    /\ UNCHANGED <<fs, backups, history, clock, blocks, results, snaps, applies, undos, response, handoff>>

Next ==
    \/ Analyze
    \/ \E now \in clock..(clock + 1), sel \in Selections(blocks) : Apply(now, sel)
    \/ Undo
    \/ \E path \in EditPaths, data \in {None} \cup {<<c>> : c \in Contents} :
          ExternalEdit(path, data)
    \/ \E d \in {Parent(p) : p \in EditPaths} : ExternalRmdir(d)

Spec == Init /\ [][Next]_vars

SpecFull == InitFull /\ [][Next]_vars

SpecMatch == InitMatch /\ [][Next]_vars

\* the caller parses the response it holds
Parse ==
    /\ blocks' = parse_response(response.text)
    /\ ret' = Returned("parse", FALSE, "", <<>>)
    /\ UNCHANGED <<fs, dirs, backups, history, clock, results, snaps, applies,
                   edits, undos, response, handoff>>

NextParse == Parse

SpecParse == InitParse /\ [][NextParse]_vars

\* the caller asks for the summary of the last limit records; the engine is
\* not called again in this run
HistorySummary(limit) ==
    /\ ret.op # "summary"
    /\ ret' = Returned("summary", FALSE, "", get_history_summary(history, limit))
    /\ UNCHANGED <<fs, dirs, backups, history, clock, blocks, results, snaps,
                   applies, edits, undos, response, handoff>>

NextSummary ==
    \/ ret.op # "summary" /\ Next
    \/ \E limit \in 0..MaxLimit : HistorySummary(limit)

SpecSummary == Init /\ [][NextSummary]_vars

\* sessions in which every record can be undone and the engine is constructed
\* again after the retention age
NextUndo ==
    \/ Analyze
    \/ \E now \in clock..(clock + 1), sel \in Selections(blocks) : Apply(now, sel)
    \/ UndoUpTo(MaxOps)
    \/ \E path \in EditPaths, data \in {None} \cup {<<c>> : c \in Contents} :
          ExternalEdit(path, data)
    \/ Reopen

SpecUndo == Init /\ [][NextUndo]_vars

\* ------------------------------------------------------------------------
\* The review page of app.py: the stored analysis and the apply gate
\* ------------------------------------------------------------------------

\* a gate that looks at the first verdict only
CanApplyFirst(analysis, bs) ==
    Len(analysis) = 0 \/ Len(bs) = 0 \/ analysis[1].status # "error"

\* can_apply after the loop over zip(results, analyzed_blocks)
CanApply(analysis, bs) ==
    \A i \in 1..Min(Len(analysis), Len(bs)) : analysis[i].status # "error"

\* enabled_count = sum(1 for b in analyzed_blocks if b.enabled)
EnabledCount(bs) == Cardinality({i \in 1..Len(bs) : bs[i].enabled})

\* the Analyze button on a text that parses to the blocks bs: the blocks are
\* stored, then analyzed; an analysis that raises stores no result
UIAnalyze(bs) ==
    \E pass \in {AnalyzePass(bs, fs, dirs)} :
        /\ blocks' = AnalyzedBlocks(bs, pass)
        /\ IF AnalyzeRaises(pass)
           THEN /\ results' = results
                /\ ret' = Returned("analyze", TRUE, NameTooLong, <<>>)
           ELSE /\ results' = AnalyzeResults(pass)
                /\ ret' = Returned("analyze", FALSE, "", <<>>)
        /\ UNCHANGED <<fs, dirs, backups, history, clock, snaps, applies, edits,
                       undos, response, handoff>>

\* the Refresh Files button: the stored blocks are analyzed again
UIRefresh ==
    /\ blocks # <<>>
    /\ Analyze

\* the Clear button
UIClear ==
    /\ blocks' = <<>>
    /\ results' = <<>>
    /\ UNCHANGED <<fs, dirs, backups, history, clock, ret, snaps, applies, edits,
                   undos, response, handoff>>

\* the checkbox of the i-th row of the page, shown for a verdict that is not
\* an error: block.enabled = st.checkbox(...)
UIToggle(i) ==
    /\ i <= Min(Len(results), Len(blocks))
    /\ results[i].status # "error"
    /\ blocks' = [blocks EXCEPT ![i].enabled = ~@]
    /\ UNCHANGED <<fs, dirs, backups, history, clock, results, ret, snaps,
                   applies, edits, undos, response, handoff>>

\* the Apply button, rendered when can_apply and enabled_count > 0: the call
\* of patcher.apply_patches(analyzed_blocks) at the second now; after a call
\* that returns, the stored analysis and the stored blocks are set to None
UIApply(now) ==
    /\ applies + edits < MaxOps
    /\ results # <<>>
    /\ CanApply(results, blocks)
    /\ EnabledCount(blocks) > 0
    /\ \E st \in {ApplyPatches(blocks, fs, dirs, backups, now)} :
        LET history_entry == [timestamp |-> now, files |-> st.entries, description |-> ""]
        IN
        /\ applies' = applies + 1
        /\ clock' = now
        /\ fs' = st.files
        /\ dirs' = st.dirs
        /\ backups' = st.backups
        /\ history' = Commit(history, st.raised, history_entry)
        /\ IF st.raised
           THEN /\ snaps' = snaps
                /\ ret' = Returned("apply", TRUE,
                                   LET halted == PreflightRaised(EnabledBlocks(blocks), fs)
                                   IN  IF halted # "" THEN halted ELSE DecodeError,
                                   <<>>)
                /\ UNCHANGED <<blocks, results>>
           ELSE /\ snaps' = Retain(Append(snaps, [pre |-> fs, post |-> st.files]))
                /\ ret' = Returned("apply", FALSE, "", st.modified_files)
                /\ blocks' = <<>>
                /\ results' = <<>>
        /\ UNCHANGED <<edits, undos, response, handoff>>

\* the lists the page analyzes: an edit, two edits of one file, an edit and a
\* block that matches nothing, a creation and an edit
UILists ==
    { <<BlockAX(<<"a", "=", "b">>, <<"c">>)>>,
      <<BlockAX(<<"a", "=", "b">>, <<"c">>), BlockAX(<<"c">>, <<"b">>)>>,
      <<BlockAX(<<"a", "=", "b">>, <<"c">>), BlockAX(<<"_">>, <<"b">>)>>,
      <<PatchBlock(PathBX, <<SP>>, <<"b">>), BlockAX(<<"c">>, <<"b">>)>> }

NextUI ==
    \/ \E bs \in UILists : UIAnalyze(bs)
    \/ UIRefresh
    \/ UIClear
    \/ \E i \in 1..Len(blocks) : UIToggle(i)
    \/ \E now \in clock..(clock + 1) : UIApply(now)
    \/ \E path \in EditPaths, data \in {None} \cup {<<c>> : c \in Contents} :
          ExternalEdit(path, data)

\* a session of the review page, from a page with nothing stored
InitUI ==
    /\ InitCommon
    /\ response = NoResponse
    /\ blocks = <<>>
    /\ history = <<>>
    /\ snaps = <<>>
    /\ clock = 0

SpecUI == InitUI /\ [][NextUI]_vars

\* ------------------------------------------------------------------------
\* The hand-off of a received patch from the receiver thread to the session
\* ------------------------------------------------------------------------

\* the POSTs of a run
MaxPosts == 3

\* receive_patch, open(".incoming_patch.txt", "w"): the file is created or
\* cut to nothing; the text is written when the with block closes the file
ReceiveOpen(text) ==
    /\ handoff.receiver = "idle"
    /\ handoff.posts < MaxPosts
    /\ handoff' = [handoff EXCEPT !.receiver = "open", !.text = text,
                                  !.file = <<<<>>>>, !.latest = <<text>>,
                                  !.posts = @ + 1]
    /\ UNCHANGED <<fs, dirs, backups, history, clock, blocks, results, ret, snaps,
                   applies, edits, undos, response>>

\* receive_patch, the end of the with block: the text reaches the file the
\* thread opened; when that file was removed in between, it reaches no name
ReceiveClose ==
    /\ handoff.receiver \in {"open", "unlinked"}
    /\ handoff' = [handoff EXCEPT
                     !.receiver = "idle",
                     !.file = IF handoff.receiver = "open" THEN <<handoff.text>>
                              ELSE @]
    /\ UNCHANGED <<fs, dirs, backups, history, clock, blocks, results, ret, snaps,
                   applies, edits, undos, response>>

\* a script run reaches the auto-load block and os.path.exists returns True
UIExists ==
    /\ handoff.ui = "idle"
    /\ handoff.file # None
    /\ handoff' = [handoff EXCEPT !.ui = "exists"]
    /\ UNCHANGED <<fs, dirs, backups, history, clock, blocks, results, ret, snaps,
                   applies, edits, undos, response>>

\* content = f.read(); a content that is empty or is the stored one ends the
\* block, any other is stored in incoming_patch
UIRead ==
    /\ handoff.ui = "exists"
    /\ LET content == handoff.file[1]
       IN  handoff' = IF content # <<>> /\ content # handoff.incoming_patch
                      THEN [handoff EXCEPT !.ui = "stored", !.incoming_patch = content]
                      ELSE [handoff EXCEPT !.ui = "idle"]
    /\ UNCHANGED <<fs, dirs, backups, history, clock, blocks, results, ret, snaps,
                   applies, edits, undos, response>>

\* os.remove(".incoming_patch.txt"), then st.rerun(); while the receiver has
\* the file open, the remove unlinks the name (POSIX) or raises and ends the
\* script run (Windows)
UIRemove ==
    /\ handoff.ui = "stored"
    /\ \E unlinks \in IF handoff.receiver = "open" THEN BOOLEAN ELSE {TRUE} :
         handoff' = IF unlinks
                    THEN [handoff EXCEPT
                            !.ui = "idle",
                            !.file = None,
                            !.receiver = IF @ = "open" THEN "unlinked" ELSE @]
                    ELSE [handoff EXCEPT !.ui = "idle"]
    /\ UNCHANGED <<fs, dirs, backups, history, clock, blocks, results, ret, snaps,
                   applies, edits, undos, response>>

NextHandoff ==
    \/ \E text \in PatchTexts : ReceiveOpen(text)
    \/ ReceiveClose
    \/ UIExists
    \/ UIRead
    \/ UIRemove

\* the receiver thread runs on once it has opened the file, a script run that
\* has entered the auto-load block runs on, and the script runs again while
\* the file is there; nothing makes the extension post
FairHandoff ==
    /\ WF_vars(ReceiveClose)
    /\ WF_vars(UIExists)
    /\ WF_vars(UIRead)
    /\ WF_vars(UIRemove)

SpecHandoff == InitUI /\ [][NextHandoff]_vars /\ FairHandoff

\* ------------------------------------------------------------------------
\* Properties
\* ------------------------------------------------------------------------

\* the step is a call of apply_patches, of undo_last, of analyze_blocks
ApplyStep == applies' = applies + 1

UndoStep == ret'.op = "undo"

AnalyzeStep == ret'.op = "analyze"

\* the most recent record of the log and the paths of its entries
LastRecord == history[Len(history)]

LastSnap == snaps[Len(snaps)]

EntryPaths(record) == {record.files[i].path : i \in 1..Len(record.files)}

\* no file of the most recent transaction was edited since its apply
Untouched == \A p \in EntryPaths(LastRecord) : Get(fs, p) = Get(LastSnap.post, p)

\* C1 -- Undo round-trip: when no file of the most recent transaction T was
\* edited since its apply (and no file was edited in the run at all),
\* undo_last leaves every file of T with the bytes it had before T, and absent
\* if it was absent before T.
UndoRoundTrip ==
    [][(UndoStep /\ history # <<>> /\ edits = 0 /\ Untouched)
         => \A p \in EntryPaths(LastRecord) : Get(fs', p) = Get(LastSnap.pre, p)]_vars

\* a file with a modify entry in the most recent transaction no longer has the
\* bytes the apply left it with
Tampered ==
    \E i \in 1..Len(LastRecord.files) :
        /\ LastRecord.files[i].action = "modify"
        /\ Get(fs, LastRecord.files[i].path) # Get(LastSnap.post, LastRecord.files[i].path)

Refusals == {"STOP", "no longer exists"}

\* C2 -- Tamper guard: when a file modified by the most recent transaction was
\* changed or removed since the apply, undo_last refuses, returns an empty
\* restored list, touches no file and leaves the History Log as it was.
TamperGuard ==
    [][(UndoStep /\ history # <<>> /\ Tampered)
         => /\ ret'.message \in Refusals
            /\ ret'.files = <<>>
            /\ fs' = fs
            /\ history' = history]_vars

\* C3 -- Ambiguity safety: when the most recent analyze pass found the
\* search_block of an enabled block two or more times in its file (the
\* "Ambiguous! Found N exact matches" verdict), apply changes no file.
AmbiguitySafety ==
    [][(ApplyStep /\ results # <<>>
          /\ \E i \in 1..Len(blocks) :
                blocks'[i].enabled /\ results[i].row = "ambiguous_exact")
         => fs' = fs]_vars

\* an enabled block that targets an existing file with a non-blank
\* search_block and has no valid_match
Rejected(b, files) ==
    /\ b.enabled
    /\ Exists(files, b.filename)
    /\ ~IsBlank(b.search_block)
    /\ b.valid_match = None

\* C4 -- Preflight is all-or-nothing: an apply call whose list holds an
\* enabled block on an existing file with a non-blank search_block and no
\* valid_match raises and leaves the working files, the directories, the
\* Backup Store and the History Log as they were.
PreflightAllOrNothing ==
    [][(ApplyStep /\ \E i \in 1..Len(blocks) : Rejected(blocks'[i], fs))
         => /\ ret'.raised
            /\ fs' = fs
            /\ dirs' = dirs
            /\ backups' = backups
            /\ history' = history]_vars

\* C4 witness: an apply was halted on its second block while its first block,
\* the creation of a missing file, was enabled; nothing was written.
PreflightWitness ==
    /\ ret.op = "apply"
    /\ ret.raised
    /\ Len(blocks) = 2
    /\ blocks[1].enabled
    /\ ~Exists(fs, blocks[1].filename)
    /\ IsBlank(blocks[1].search_block)
    /\ Rejected(blocks[2], fs)
    /\ backups = <<>>
    /\ history = <<>>

\* C5 -- The engine mutates only paths that pass the Ignore Policy: no apply
\* call creates, modifies or deletes a path for which _is_ignored is true.
IgnoredNeverMutated ==
    [][ApplyStep => \A p \in Paths : _is_ignored(p) => Get(fs', p) = Get(fs, p)]_vars

\* C6 -- A block whose most recent verdict is error cannot be applied: an
\* apply call of a list of one enabled block whose verdict is error does not
\* create, modify or delete the block's file.
ErrorNeverApplied ==
    [][(ApplyStep /\ Len(blocks) = 1 /\ results # <<>>
          /\ blocks'[1].enabled /\ results[1].status = "error")
         => Get(fs', blocks[1].filename) = Get(fs, blocks[1].filename)]_vars

\* C7 -- Backup uniqueness: in every record of the History Log, no two
\* entries share a backup path.
BackupUniqueness ==
    \A r \in 1..Len(history) :
        \A i, j \in 1..Len(history[r].files) :
            (i < j /\ history[r].files[i].backup # None)
                => history[r].files[i].backup # history[r].files[j].backup

\* C8 -- Retention: a successful apply leaves at most MAX_HISTORY records in
\* the History Log: the log before the call with the new record appended, cut
\* to its most recent MAX_HISTORY records, in commit order; the newest record
\* is the transaction just applied.
Retention ==
    [][(ApplyStep /\ ~ret'.raised)
         => LET n      == Len(history')
                newest == history'[n]
                all    == Append(history, newest)
            IN  /\ n <= MAX_HISTORY
                /\ n = Min(MAX_HISTORY, Len(history) + 1)
                /\ history' = SubSeq(all, Len(all) - n + 1, Len(all))
                /\ newest.timestamp = clock'
                /\ [i \in 1..Len(newest.files) |-> newest.files[i].path] = ret'.files]_vars

\* C8 witness: an apply that wrote a file was committed to a full log, and
\* the oldest record was discarded.
RetentionWitness ==
    /\ ret.op = "apply"
    /\ ~ret.raised
    /\ ret.files # <<>>
    /\ Len(history) = MAX_HISTORY
    /\ history[1].timestamp = 2
    /\ history[MAX_HISTORY].timestamp = clock
    /\ history[MAX_HISTORY].files # <<>>

Below(score, percent) == ~ScoreGE(score, <<percent, 1>>)

\* C9 -- Fuzzy gating: a block for which the latest analyze pass computed a
\* best fuzzy similarity below 80 has the verdict error and no valid_match; a
\* best similarity of 80 or more yields a warning.
FuzzyGating ==
    \A i \in 1..Len(results) :
        results[i].best_similarity # None
            => IF Below(results[i].best_similarity[1], SIMILARITY_THRESHOLD)
               THEN results[i].status = "error" /\ blocks[i].valid_match = None
               ELSE results[i].status = "warning"

ResolvedRows == {"exact", "regex", "fuzzy"}

\* C10 -- valid_match reflects the current file: after an analyze pass the
\* valid_match of a block is absent unless the pass resolved the block, and
\* then it is a substring of the file the pass read.
ValidMatchCurrent ==
    [][AnalyzeStep
         => \A i \in 1..Len(blocks) :
               blocks'[i].valid_match # None
                  => /\ results'[i].row \in ResolvedRows
                     /\ Exists(fs, blocks[i].filename)
                     /\ Contains(ReadText(fs[blocks[i].filename]), blocks'[i].valid_match[1])]_vars


\* the latest call was a committed apply of a list of one enabled block whose
\* valid_match is its search_block, on a file that held the search_block
\* exactly once
AppliedExactOnce ==
    /\ ret.op = "apply"
    /\ ~ret.raised
    /\ Len(blocks) = 1
    /\ blocks[1].enabled
    /\ blocks[1].valid_match = <<blocks[1].search_block>>
    /\ ~IsBlank(blocks[1].replace_block)
    /\ Exists(LastSnap.pre, blocks[1].filename)
    /\ Readable(LastSnap.pre[blocks[1].filename])
    /\ Count(ReadText(LastSnap.pre[blocks[1].filename]), blocks[1].search_block) = 1

\* C11 -- Exact-match idempotence: after an apply of a block whose
\* search_block occurred exactly once in the file, the file holds
\* content.replace(search, replace, 1), and an analyze pass of the same block
\* on the new content yields the no-match error.
ExactIdempotence ==
    [][(AnalyzeStep /\ AppliedExactOnce)
         => /\ fs[blocks[1].filename]
                 = ReplaceFirst(ReadText(LastSnap.pre[blocks[1].filename]),
                                blocks[1].search_block, blocks[1].replace_block)
            /\ results'[1].status = "error"
            /\ results'[1].row = "no_match"]_vars

WarningRows == {"create_mkdir", "delete", "regex", "fuzzy"}

\* the operation of a block: its file is created with replace_block, removed,
\* or has the first valid_match replaced by replace_block
Performed(b, before, after) ==
    IF ~Exists(before, b.filename)
    THEN Get(after, b.filename) = <<b.replace_block>>
    ELSE IF IsBlank(b.replace_block)
    THEN ~Exists(after, b.filename)
    ELSE /\ b.valid_match # None
         /\ Get(after, b.filename)
              = <<ReplaceFirst(ReadText(before[b.filename]), b.valid_match[1],
                               b.replace_block)>>

\* C12 -- A warning verdict may still be applied: an apply call of a list of
\* one enabled block, run right after the analyze pass that gave the block a
\* warning verdict (parent directory will be created, file will be deleted,
\* regex match, fuzzy match), does not raise, performs the block's operation
\* and reports the file.
WarningApplicable ==
    [][(ApplyStep /\ ret.op = "analyze" /\ ~ret.raised
          /\ Len(blocks) = 1 /\ blocks'[1].enabled
          /\ results[1].status = "warning")
         => /\ results[1].row \in WarningRows
            /\ ~ret'.raised
            /\ Performed(blocks[1], fs, fs')
            /\ ret'.files = <<blocks[1].filename>>]_vars

\* the enabled blocks of a list, in the order of the list
EnabledOf(bs) ==
    LET IsEnabled(b) == b.enabled
    IN  SelectSeq(bs, IsEnabled)

\* C13 -- Only enabled blocks take part in apply: the call does what it does
\* on the list of the enabled blocks alone, in their input order; a block that
\* is not enabled cannot halt the apply, changes no file and has no entry in
\* the committed record.
EnabledOnly ==
    [][ApplyStep
         => LET en == EnabledOf(blocks')
                st == ApplyPatches(en, fs, dirs, backups, clock')
            IN  /\ (\A i \in 1..Len(en) : ~Rejected(en[i], fs)) => ret'.message # SafetyHalt
                /\ ret'.raised = st.raised
                /\ fs' = st.files
                /\ backups' = st.backups
                /\ ~ret'.raised
                     => /\ ret'.files = st.modified_files
                        /\ history'[Len(history')].files = st.entries
                        /\ \A p \in EntryPaths(history'[Len(history')]) :
                              \E i \in 1..Len(en) : en[i].filename = p
                /\ (en = <<>>) => (fs' = fs /\ ~ret'.raised)]_vars

\* C13 witness: an apply created the file of its first block while its second
\* block, which has no valid_match on an existing file, was not enabled.
EnabledOnlyWitness ==
    /\ ret.op = "apply"
    /\ ~ret.raised
    /\ Len(blocks) = 2
    /\ blocks[1].enabled
    /\ ~blocks[2].enabled
    /\ Rejected([blocks[2] EXCEPT !.enabled = TRUE], LastSnap.pre)
    /\ ret.files = <<blocks[1].filename>>
    /\ Len(LastRecord.files) = 1
    /\ LastSnap.post[blocks[2].filename] = LastSnap.pre[blocks[2].filename]

\* the iteration of the apply loop for block b raises on these files: the
\* file exists, is kept, and does not decode
ReadFails(b, files) ==
    /\ Exists(files, b.filename)
    /\ ~IsBlank(b.replace_block)
    /\ ~Readable(files[b.filename])

\* the iteration for block b writes: it creates or removes the file, or
\* replaces its valid_match
Writes(b, files) ==
    \/ ~Exists(files, b.filename)
    \/ IsBlank(b.replace_block)
    \/ Readable(files[b.filename]) /\ Truthy(b.valid_match)

Success == "Successfully reverted changes."

\* C14 -- Mid-apply failure: when a read fails while apply is in its apply
\* loop, the call raises, the History Log is left as it was, and what the
\* first block wrote before the second block failed is kept; an undo_last that
\* follows acts on the record of the previous transaction: it restores only
\* files of that record, removes that record when it succeeds, and leaves the
\* files the failed call wrote.
MidApplyFailure ==
    [][/\ (ApplyStep /\ ret'.raised /\ ret'.message = DecodeError)
          => LET en == EnabledOf(blocks')
             IN  /\ history' = history
                 /\ (Len(en) = 2 /\ ~ReadFails(en[1], fs) /\ Writes(en[1], fs)
                       /\ en[2].filename # en[1].filename)
                      => Performed(en[1], fs, fs')
       /\ (UndoStep /\ ret.op = "apply" /\ ret.raised /\ history # <<>>)
          => /\ \A i \in 1..Len(ret'.files) : ret'.files[i] \in EntryPaths(LastRecord)
             /\ ret'.message = Success => history' = SubSeq(history, 1, Len(history) - 1)
             /\ \A p \in Paths \ EntryPaths(LastRecord) : Get(fs', p) = Get(fs, p)]_vars

\* C14 witness: an apply on a full log created b/x and then failed to read
\* a/x; the undo_last that followed removed the record of the transaction
\* before it and left b/x in place.
MidApplyFailureWitness ==
    /\ ret.op = "undo"
    /\ ret.message = Success
    /\ applies = 1
    /\ Len(history) = MAX_HISTORY - 1
    /\ history[MAX_HISTORY - 1].timestamp = MAX_HISTORY - 1
    /\ Get(fs, PathBX) = <<(<<"b">>)>>
    /\ Exists(fs, PathAX)
    /\ ~Readable(fs[PathAX])
    /\ backups # <<>>

\* C15 -- Undo failure mid-restore: when a restore step of undo_last fails
\* after the verification passed, the failure is reported and the record is
\* gone from the History Log.
UndoFailureLeavesLogPopped ==
    [][(UndoStep /\ ret'.message = "Error during undo")
         => history' = SubSeq(history, 1, Len(history) - 1)]_vars

\* C16 -- undo_last is last-in-first-out: with an empty log it changes no
\* file and no log and returns an empty restored list; otherwise it restores
\* only files of the most recent record, leaves every other file alone, and
\* the log after the call is the log before it without its last record when
\* the call reports success and the log before it when it does not.
UndoLifo ==
    [][UndoStep
         => IF history = <<>>
            THEN fs' = fs /\ history' = history /\ ret'.files = <<>>
            ELSE /\ \A i \in 1..Len(ret'.files) : ret'.files[i] \in EntryPaths(LastRecord)
                 /\ \A p \in Paths \ EntryPaths(LastRecord) : Get(fs', p) = Get(fs, p)
                 /\ ret'.message = Success
                      => history' = SubSeq(history, 1, Len(history) - 1)
                 /\ ret'.message # Success => history' = history]_vars

\* C16 witness: of two committed transactions that wrote files, undo_last
\* reverted the second and left the record of the first.
UndoLifoWitness ==
    /\ ret.op = "undo"
    /\ ret.message = Success
    /\ ret.files # <<>>
    /\ applies = 2
    /\ Len(history) = 1
    /\ history[1].files # <<>>

\* C17 -- TransactionRecord invariant at commit: every modify or delete entry
\* of the committed record names a backup that exists in the Backup Store,
\* and the post_hash of every modify entry is the hash of its file as the
\* call leaves it, the hash undo_last computes when no edit follows.
RecordInvariant ==
    [][(ApplyStep /\ ~ret'.raised)
         => LET record == history'[Len(history')]
            IN  \A i \in 1..Len(record.files) :
                   LET fentry == record.files[i]
                   IN  /\ fentry.action \in {"modify", "delete"}
                          => fentry.backup # None /\ Exists(backups', fentry.backup[1])
                       /\ fentry.action = "modify"
                          => /\ Exists(fs', fentry.path)
                             /\ fentry.post_hash = _calculate_hash(fs', fentry.path)]_vars

\* C18 -- Stale match at apply time: when the file of the one enabled block
\* was edited after the analyze pass so that the block's valid_match is no
\* longer a substring of it, apply raises, reports no file as modified and
\* commits no modify entry for it.
StaleMatchSurfaced ==
    [][(ApplyStep /\ Len(blocks) = 1 /\ blocks'[1].enabled
          /\ ret.op = "edit" /\ ret.files = <<blocks[1].filename>>
          /\ Truthy(blocks[1].valid_match)
          /\ ~IsBlank(blocks[1].replace_block)
          /\ Exists(fs, blocks[1].filename)
          /\ Readable(fs[blocks[1].filename])
          /\ ~Contains(ReadText(fs[blocks[1].filename]), blocks[1].valid_match[1]))
         => /\ ret'.raised
            /\ ret'.files = <<>>
            /\ history' = history]_vars

Statuses == {"success", "warning", "error"}

\* C19 -- analyze is total: for every list of blocks and every state of the
\* file system an analyze pass does not raise and returns one verdict per
\* block of the list, in the order of the list: verdict i has the filename of
\* block i and one of the three statuses.
AnalyzeTotal ==
    [][AnalyzeStep
         => /\ ~ret'.raised
            /\ Len(results') = Len(blocks)
            /\ \A i \in 1..Len(blocks) :
                  /\ results'[i].filename = blocks[i].filename
                  /\ results'[i].status \in Statuses]_vars

\* C20 -- analyze has no file-system effect: an analyze pass changes no
\* working file, no directory, no backup and no record of the History Log,
\* and leaves filename, search_block, replace_block and enabled of every
\* block as they were.
AnalyzeFrame ==
    [][AnalyzeStep
         => /\ fs' = fs
            /\ dirs' = dirs
            /\ backups' = backups
            /\ history' = history
            /\ Len(blocks') = Len(blocks)
            /\ \A i \in 1..Len(blocks) :
                  /\ blocks'[i].filename = blocks[i].filename
                  /\ blocks'[i].search_block = blocks[i].search_block
                  /\ blocks'[i].replace_block = blocks[i].replace_block
                  /\ blocks'[i].enabled = blocks[i].enabled]_vars

\* C20 witness: a pass resolved a block that is not enabled, after an apply
\* that wrote a backup and committed a record.
AnalyzeFrameWitness ==
    /\ ret.op = "analyze"
    /\ ~ret.raised
    /\ backups # <<>>
    /\ history # <<>>
    /\ \E i \in 1..Len(blocks) :
          /\ ~blocks[i].enabled
          /\ blocks[i].valid_match # None
          /\ results[i].row \in ResolvedRows

\* the rows of the Matcher cascade
CascadeRows ==
    {"exact", "ambiguous_exact", "regex", "ambiguous_regex", "fuzzy", "no_match"}

\* the first row of the decision table whose condition holds, as <<status, row>>;
\* the rows of the match cascade count as one row here
TableRow(b, files, ds) ==
    IF _is_ignored(b.filename) THEN <<"error", "ignored">>
    ELSE IF ~Exists(files, b.filename)
    THEN IF ~IsBlank(b.search_block) THEN <<"error", "missing">>
         ELSE IF Parent(b.filename) \in ds THEN <<"success", "create">>
         ELSE <<"warning", "create_mkdir">>
    ELSE IF IsBlank(b.replace_block) THEN <<"warning", "delete">>
    ELSE IF ~Readable(files[b.filename]) THEN <<"error", "unreadable">>
    ELSE IF IsBlank(b.search_block) THEN <<"error", "empty_search">>
    ELSE <<"any", "cascade">>

\* C21 -- The decision table is evaluated top to bottom and the first
\* matching row wins: an analyze pass gives every block a verdict, and the
\* verdict is the one of the first row of the table whose condition holds
\* (ignored path, missing file by blank search and parent directory, deletion
\* before read failure and blank search); a verdict of the match cascade is
\* given only when all the earlier rows fail.
DecisionTableOrder ==
    [][AnalyzeStep
         => /\ Len(results') = Len(blocks)
            /\ \A i \in 1..Len(blocks) :
                 LET row == TableRow(blocks[i], fs, dirs)
                 IN  IF row[2] = "cascade"
                     THEN results'[i].row \in CascadeRows
                     ELSE /\ results'[i].status = row[1]
                          /\ results'[i].row = row[2]]_vars

\* the blocks the analyze pass hands to the Matcher: every earlier row of the
\* decision table fails
Matched(b, files, ds) == TableRow(b, files, ds)[2] = "cascade"

\* the occurrences of sub in s, counted one position at a time without overlap
RECURSIVE Occurrences(_, _)
Occurrences(s, sub) ==
    IF Len(s) < Len(sub) \/ sub = <<>> THEN 0
    ELSE IF StartsWith(s, sub) THEN 1 + Occurrences(From(s, Len(sub)), sub)
    ELSE Occurrences(Tail(s), sub)

\* the first position of s at which sub starts
FirstAt(s, sub) ==
    CHOOSE k \in 0..Len(s) :
        /\ StartsWith(From(s, k), sub)
        /\ \A j \in 0..(k - 1) : ~StartsWith(From(s, j), sub)

RECURSIVE SpacedAs(_, _)
SpacedAs(tokens, t) ==
    IF tokens = <<>> THEN FALSE
    ELSE IF Len(tokens) = 1 THEN t = tokens[1]
    ELSE /\ StartsWith(t, tokens[1])
         /\ SpacedAs(Tail(tokens), LStrip(From(t, Len(tokens[1]))))

\* the places <<start, end>> of the content whose text differs from search
\* only in whitespace runs and in the spacing between tokens
Places(search, content) ==
    {p \in (0..Len(content)) \X (0..Len(content)) :
        /\ p[1] < p[2]
        /\ SpacedAs(Tokens(search), SubSeq(content, p[1] + 1, p[2]))}

\* the Matcher's level 2 is reached: the block gets to the cascade and its
\* search_block is not a substring of the file
Level2(b, files, ds) ==
    /\ Matched(b, files, ds)
    /\ Occurrences(ReadText(files[b.filename]), b.search_block) = 0

\* the verdict and the resolution of level 2 for the place p of the content
ResolvedAt(b, result, p, content) ==
    /\ result.status = "warning"
    /\ result.row = "regex"
    /\ result.similarity_score = <<<<95, 1>>>>
    /\ result.line_number = CountNL(Upto(content, p[1])) + 1
    /\ b.valid_match = <<SubSeq(content, p[1] + 1, p[2])>>
    /\ b.match_quality = <<95, 1>>

\* C23 -- Whitespace invariance at level 2, as first stated: for any
\* search_block that differs from a text of the file only in runs of
\* whitespace and inter-token spacing, the Matcher resolves with score 95
\* (warning) and valid_match equal to the file's matched substring.
WhitespaceInvariance ==
    [][(AnalyzeStep /\ ~ret'.raised)
         => \A i \in 1..Len(blocks) :
              LET content == ReadText(fs[blocks[i].filename])
                  places  == Places(blocks[i].search_block, content)
              IN  (Level2(blocks[i], fs, dirs) /\ places # {})
                    => \E p \in places :
                         ResolvedAt(blocks'[i], results'[i], p, content)]_vars

\* C23 -- Whitespace invariance at level 2, amended: for any search_block
\* that differs only in runs of whitespace and inter-token spacing from the
\* text of exactly one place of the file, the Matcher resolves with score 95
\* (warning), valid_match equal to the text of that place and the line number
\* of that place.
WhitespaceInvarianceUnique ==
    [][(AnalyzeStep /\ ~ret'.raised)
         => \A i \in 1..Len(blocks) :
              LET content == ReadText(fs[blocks[i].filename])
                  places  == Places(blocks[i].search_block, content)
              IN  (Level2(blocks[i], fs, dirs) /\ Cardinality(places) = 1)
                    => \A p \in places :
                         ResolvedAt(blocks'[i], results'[i], p, content)]_vars

\* an analyze pass has resolved at level 2 a block whose search_block is not
\* the text of the file
WhitespaceInvarianceWitness ==
    /\ ret.op = "analyze"
    /\ ~ret.raised
    /\ \E i \in 1..Len(results) :
         /\ results[i].row = "regex"
         /\ Exists(fs, blocks[i].filename)
         /\ Cardinality(Places(blocks[i].search_block,
                               ReadText(fs[blocks[i].filename]))) = 1
         /\ blocks[i].valid_match # <<blocks[i].search_block>>

\* the parse step of a run
ParseStep == ret'.op = "parse"

\* the block of a complete unit of the response: its own path, trimmed, its
\* search text and its replace text
UnitBlock(segment) == PatchBlock(Strip(segment.path), <<"b">>, <<"c">>)

\* the complete units of a response, in document order
RECURSIVE Units(_)
Units(segments) ==
    IF segments = <<>> THEN <<>>
    ELSE (IF Head(segments).kind = "unit" THEN <<Head(segments)>> ELSE <<>>)
            \o Units(Tail(segments))

\* the response is complete units, stray FILE lines, unterminated units and
\* plain text
WellMarked ==
    \A i \in 1..Len(response.segments) : response.segments[i].kind # "sloppy"

\* C24 -- The parser ignores non-matching text and fabricates no block: every
\* returned block is the block of one complete unit of the response, with the
\* path of that unit's own FILE line and that unit's search and replace text;
\* a stray FILE line, an unterminated unit and the text around the units
\* never become part of a block's fields.
NoFabricatedBlock ==
    [][(ParseStep /\ WellMarked)
         => \A i \in 1..Len(blocks') :
              \E k \in 1..Len(response.segments) :
                 /\ response.segments[k].kind = "unit"
                 /\ blocks'[i] = UnitBlock(response.segments[k])]_vars

\* the text of a block as the response format writes it
Render(b) == UnitText(b.filename, b.search_block, b.replace_block)

\* C25 -- Parse round-trip: every block b that parse returns, written as
\* 'FILE: <filename>\n<<<<< SEARCH\n<search>\n=====\n<replace>\n>>>>>' and
\* parsed again, gives exactly one block with b's filename, search_block and
\* replace_block.
ParseRoundTrip ==
    [][ParseStep
         => \A i \in 1..Len(blocks') :
              parse_response(Render(blocks'[i]))
                = <<PatchBlock(blocks'[i].filename, blocks'[i].search_block,
                               blocks'[i].replace_block)>>]_vars

\* the units parse has to return: those whose trimmed path is neither empty
\* nor absolute, in document order
RECURSIVE Kept(_)
Kept(units) ==
    IF units = <<>> THEN <<>>
    ELSE LET path == Strip(Head(units).path)
         IN  (IF path # <<>> /\ Head(path) # "/" THEN <<UnitBlock(Head(units))>> ELSE <<>>)
                \o Kept(Tail(units))

\* the response is complete units and plain text only
UnitsAndText ==
    \A i \in 1..Len(response.segments) :
        response.segments[i].kind \in {"unit", "text"}

\* C26 -- Parser filtering and order: parse drops exactly the units whose
\* trimmed path is empty or absolute and returns all the other units in
\* document order, duplicates included; every returned block has a non-empty,
\* non-absolute filename, no valid_match and enabled = TRUE.
ParserFiltering ==
    [][(ParseStep /\ UnitsAndText)
         => /\ blocks' = Kept(Units(response.segments))
            /\ \A i \in 1..Len(blocks') :
                 /\ blocks'[i].filename # <<>>
                 /\ Head(blocks'[i].filename) # "/"
                 /\ blocks'[i].valid_match = None
                 /\ blocks'[i].enabled]_vars

\* C27 -- History summary: get_history_summary(limit) returns the summaries
\* of the most recent min(limit, len(log)) records, newest first, for every
\* limit >= 0 and every log length (never more than limit of them), and does
\* not change the log.
HistorySummaryContract ==
    [][\A limit \in 0..MaxLimit :
         (ret'.op = "summary" /\ HistorySummary(limit))
           => /\ Len(ret'.files) = Min(limit, Len(history))
              /\ \A i \in 1..Len(ret'.files) :
                   ret'.files[i] = Summary(history[Len(history) + 1 - i])
              /\ history' = history]_vars

\* C28 -- Create: for an enabled block whose file does not exist at its turn
\* in apply (here: the file does not exist before the call and no other
\* enabled block of the list names it), apply creates the missing parent
\* directories, writes exactly replace_block as the file's content, and
\* records a create entry with no backup and post_hash = the hash of the new
\* file; an undo that reverts a record removes every file the record created.
CreateContract ==
    [][/\ (ApplyStep /\ ~ret'.raised)
            => \A i \in 1..Len(blocks') :
                 LET f == blocks'[i].filename
                 IN  ( /\ blocks'[i].enabled
                       /\ ~Exists(fs, f)
                       /\ \A j \in 1..Len(blocks') :
                            (j # i /\ blocks'[j].enabled) => blocks'[j].filename # f )
                       => /\ Get(fs', f) = <<blocks'[i].replace_block>>
                          /\ Ancestors(f) \subseteq dirs'
                          /\ \E k \in 1..Len(history'[Len(history')].files) :
                               history'[Len(history')].files[k]
                                 = FileEntry(f, "create", None,
                                             Sha256(blocks'[i].replace_block), None, 0)
       /\ (UndoStep /\ ret'.message = Success)
            => \A k \in 1..Len(LastRecord.files) :
                 LastRecord.files[k].action = "create"
                   => ~Exists(fs', LastRecord.files[k].path)]_vars

\* C29 -- Modify writes exactly one replacement: after an apply of a list of
\* one enabled modify block (file present and readable, replace_block not
\* blank, valid_match set and present in the file), the file holds the bytes
\* it held with the first occurrence of valid_match replaced by
\* replace_block, once; every other byte of the file is unchanged.
ModifyOnce ==
    [][(ApplyStep /\ ~ret'.raised /\ Len(blocks') = 1)
         => LET b == blocks'[1]
                old == fs[b.filename]
                at == FirstAt(old, b.valid_match[1])
            IN  ( /\ b.enabled
                  /\ Exists(fs, b.filename)
                  /\ ~IsBlank(b.replace_block)
                  /\ Readable(old)
                  /\ Truthy(b.valid_match)
                  /\ Occurrences(old, b.valid_match[1]) > 0 )
                  => fs'[b.filename]
                       = Upto(old, at) \o b.replace_block
                           \o From(old, at + Len(b.valid_match[1]))]_vars

\* the states an apply loop goes through: before each block, after the
\* block's backup copy, and after the block's iteration
RECURSIVE Stages(_, _, _)
Stages(st, bs, timestamp) ==
    IF bs = <<>> \/ st.raised THEN <<st>>
    ELSE <<st, BackupFile(st, Head(bs), timestamp)>>
            \o Stages(ApplyBlock(st, Head(bs), timestamp), Tail(bs), timestamp)

\* the stages of the apply call that makes the step
StepStages ==
    LET enabled == EnabledBlocks(blocks')
        st0 == [files |-> fs, dirs |-> dirs, backups |-> backups,
                entries |-> <<>>, modified_files |-> <<>>, raised |-> FALSE]
    IN  IF PreflightHalts(enabled, fs) \/ PreflightOSError(enabled)
        THEN <<st0>>
        ELSE Stages(st0, enabled, clock')

\* the stage before the latest change of file p up to stage k (0: no change)
LastChange(stages, p, k) ==
    LET changed == {j \in 2..k : Get(stages[j].files, p) # Get(stages[j - 1].files, p)}
    IN  IF changed = {} THEN 0
        ELSE (CHOOSE j \in changed : \A i \in changed : i <= j) - 1

\* C30 -- Backup before mutation: in every apply, the backup copy of a
\* modify or delete block is complete before the file is overwritten or
\* unlinked, so in no intermediate state of the apply, a failure part-way
\* included, has a file that existed before the call been changed or removed
\* without a backup (of this apply) holding the content the file had just
\* before the step that changed it.
BackupBeforeMutation ==
    [][ApplyStep
         => LET stages == StepStages
            IN  /\ stages[Len(stages)].files = fs'
                /\ stages[Len(stages)].backups = backups'
                /\ \A k \in 1..Len(stages), p \in DOMAIN fs :
                     LET j == LastChange(stages, p, k)
                     IN  j > 0
                           => Get(stages[k].backups, BackupPath(p, clock'))
                                = <<stages[j].files[p]>>]_vars

\* the Matcher's level 3 is reached: level 2 is, and no place of the file
\* differs from search_block in whitespace only
Level3(b, files, ds) ==
    /\ Level2(b, files, ds)
    /\ Places(b.search_block, ReadText(files[b.filename])) = {}

\* the windows of the file with as many lines as search: the line each starts
\* on, its text and its similarity to search
Windows(search, content) ==
    LET lines == SplitLines(content)
        n     == Len(SplitLines(search))
    IN  {[line |-> k,
          text |-> Join(<<NL>>, SubSeq(lines, k, k + n - 1)),
          score |-> _calculate_similarity(search, Join(<<NL>>, SubSeq(lines, k, k + n - 1)))] :
            k \in 1..(Len(lines) - n + 1)}

RatLess(x, y) == x[1] * y[2] < y[1] * x[2]

\* the windows whose similarity is the maximum and is not 0
BestWindows(search, content) ==
    {w \in Windows(search, content) :
        /\ w.score[1] > 0
        /\ \A v \in Windows(search, content) : ~RatLess(w.score, v.score)}

\* C31 -- Fuzzy tie-break: at level 3, when the maximum similarity is at least
\* SIMILARITY_THRESHOLD, the resolved window (valid_match and line_number) is
\* the earliest of the windows whose similarity equals the maximum; when
\* search_block has more lines than the file or every window scores 0, there
\* is no candidate and the verdict is the no-match error with the first
\* PREVIEW_CHARS characters of the file as context.
FuzzyTieBreak ==
    [][(AnalyzeStep /\ ~ret'.raised)
         => \A i \in 1..Len(blocks) :
              Level3(blocks[i], fs, dirs)
                => LET content == ReadText(fs[blocks[i].filename])
                       best    == BestWindows(blocks[i].search_block, content)
                       first   == CHOOSE w \in best : \A v \in best : w.line <= v.line
                   IN  /\ best = {}
                         => /\ results'[i].status = "error"
                            /\ results'[i].row = "no_match"
                            /\ results'[i].error_context.kind = "text"
                            /\ results'[i].error_context.text
                                 = SubSeq(content, 1, Min(Len(content), PREVIEW_CHARS))
                            /\ blocks'[i] = blocks[i]
                       /\ (best # {} /\ ~RatLess(first.score, <<SIMILARITY_THRESHOLD, 1>>))
                         => /\ results'[i].row = "fuzzy"
                            /\ results'[i].line_number = first.line
                            /\ blocks'[i].valid_match = <<first.text>>
                            /\ blocks'[i].line_number = first.line]_vars

\* an analyze pass has resolved at level 3 a block for which two windows of
\* the file share the maximum similarity
FuzzyTieBreakWitness ==
    /\ ret.op = "analyze"
    /\ ~ret.raised
    /\ \E i \in 1..Len(results) :
         /\ results[i].row = "fuzzy"
         /\ Exists(fs, blocks[i].filename)
         /\ Readable(fs[blocks[i].filename])
         /\ Cardinality(BestWindows(blocks[i].search_block,
                                    ReadText(fs[blocks[i].filename]))) > 1

\* the half-width of the context window of the specification
CONTEXT_LINES == 10

\* the 1-based best candidate line of a verdict of the match cascade, 0 when
\* there is none: the line of the resolution, of the first of several
\* matches, or of the best window of a miss
CandidateLine(b, result, content) ==
    IF result.row \in {"regex", "fuzzy"} THEN result.line_number
    ELSE IF result.row = "ambiguous_exact"
    THEN CountNL(Upto(content, FirstAt(content, b.search_block))) + 1
    ELSE IF result.row = "ambiguous_regex"
    THEN LET places == Places(b.search_block, content)
             first  == CHOOSE p \in places : \A q \in places : p[1] <= q[1]
         IN  CountNL(Upto(content, first[1])) + 1
    ELSE IF result.row = "no_match"
    THEN LET best == BestWindows(b.search_block, content)
         IN  IF best = {} THEN 0
             ELSE (CHOOSE w \in best : \A v \in best : w.line <= v.line).line
    ELSE 0

\* the lines c - CONTEXT_LINES .. c + CONTEXT_LINES of the content, clipped to
\* its bounds, numbered from 1, the line c marked
ExpectedWindow(content, c) ==
    LET lines == SplitLines(content)
        lo == IF c - CONTEXT_LINES > 1 THEN c - CONTEXT_LINES ELSE 1
        hi == Min(Len(lines), c + CONTEXT_LINES)
    IN  [k \in 1..(hi - lo + 1) |->
           [marker |-> IF lo + k - 1 = c THEN ">>>" ELSE "   ",
            number |-> lo + k - 1,
            text   |-> lines[lo + k - 1]]]

\* C32 -- Context window: every warning and error verdict that has a best
\* candidate line c carries an error_context that holds the file lines
\* c-10 .. c+10 clipped to the file's bounds, each with its 1-based line
\* number, with exactly the candidate line marked '>>>'.
ContextWindow ==
    [][(AnalyzeStep /\ ~ret'.raised)
         => \A i \in 1..Len(blocks) :
              (results'[i].status \in {"warning", "error"}
                 /\ results'[i].row \in CascadeRows)
                => LET content == ReadText(fs[blocks[i].filename])
                       c == CandidateLine(blocks[i], results'[i], content)
                   IN  c > 0
                         => /\ results'[i].error_context.kind = "window"
                            /\ results'[i].error_context.lines
                                 = ExpectedWindow(content, c)]_vars

\* C33 -- Replacement lands where analysis said: when the file has not
\* changed between the analysis and the apply, the single replacement of an
\* enabled modify block starts on the line the analysis reported as
\* line_number, whichever strategy resolved the block, also when the text of
\* a fuzzy-resolved window occurs earlier in the file inside another line.
ReplacementOnReportedLine ==
    [][(ApplyStep /\ ~ret'.raised /\ Len(blocks') = 1
          /\ applies = 0 /\ edits = 0 /\ undos = 0)
         => LET b == blocks'[1]
                f == b.filename
            IN  ( /\ b.enabled
                  /\ Exists(fs, f)
                  /\ ~IsBlank(b.replace_block)
                  /\ Readable(fs[f])
                  /\ Truthy(b.valid_match)
                  /\ b.line_number > 0 )
                  => LET old == ReadText(fs[f])
                         n == Len(b.valid_match[1])
                     IN  \E at \in 0..Len(old) :
                           /\ CountNL(Upto(old, at)) + 1 = b.line_number
                           /\ ReadText(fs'[f])
                                = Upto(old, at) \o b.replace_block
                                    \o From(old, at + n)]_vars

\* C34 -- Transactions in the same clock second do not share backups: when
\* two transactions modify the same file at one epoch second, no file is
\* written from outside, and both are undone, the second undo leaves the
\* file with the content it had before the first transaction.
SameSecondUndo ==
    [][(UndoStep /\ ret'.message = Success
          /\ applies = 2 /\ edits = 0 /\ Len(history) = 1
          /\ ret.op = "undo" /\ ret.message = Success
          /\ clock = history[1].timestamp
          /\ Len(history[1].files) = 1
          /\ history[1].files[1].action = "modify"
          /\ ret.files = <<history[1].files[1].path>>)
         => LET f == history[1].files[1].path
            IN  Get(fs', f) = Get(snaps[1].pre, f)]_vars

\* C35 -- Undo reports success only when everything was restored: undo_last
\* returns the success message, or drops the record, only when every modify
\* and delete entry of the record had its backup copied back; when a backup
\* is gone (purged after the retention age when the engine was constructed)
\* the undo is not reported as a success and the record stays.
UndoAllOrNothing ==
    [][(UndoStep /\ history # <<>>
          /\ (ret'.message = Success \/ history' # history))
         => \A k \in 1..Len(LastRecord.files) :
              LastRecord.files[k].action \in {"modify", "delete"}
                => /\ Exists(backups, LastRecord.files[k].backup[1])
                   /\ \E j \in 1..Len(ret'.files) :
                        ret'.files[j] = LastRecord.files[k].path]_vars

\* C36 -- Undo never destroys content the user wrote after the apply, for
\* create and delete entries too: when a path of a create or a delete entry
\* of the most recent record holds content that was written after that
\* apply, undo_last neither removes nor overwrites it.
UndoKeepsUserContent ==
    [][(UndoStep /\ history # <<>>)
         => \A k \in 1..Len(LastRecord.files) :
              LET f == LastRecord.files[k].path
              IN  ( /\ LastRecord.files[k].action \in {"create", "delete"}
                    /\ Exists(fs, f)
                    /\ Get(fs, f) # Get(LastSnap.post, f) )
                    => Get(fs', f) = Get(fs, f)]_vars

\* the subsequences of the sequence s
RECURSIVE SubSeqs(_)
SubSeqs(s) ==
    IF s = <<>> THEN {<<>>}
    ELSE LET rest == SubSeqs(Tail(s))
         IN  rest \cup {<<Head(s)>> \o t : t \in rest}

\* C37 -- One record per committed apply: an apply that returns normally
\* appends exactly one record to the History Log (before the cut to the cap),
\* also when no block is enabled or no file changes; the entries of the
\* record are the file operations of the call, in order: their paths are the
\* returned modified_paths, taken in order from the enabled blocks, and every
\* file the call changed has an entry; an apply that raises appends none.
OneRecordPerApply ==
    [][ApplyStep
         => IF ret'.raised
            THEN history' = history
            ELSE \E record \in {history'[k] : k \in {Len(history')} \ {0}} :
                   /\ history' = Retain(Append(history, record))
                   /\ record.timestamp = clock'
                   /\ ret'.files = [k \in 1..Len(record.files) |-> record.files[k].path]
                   /\ \E chosen \in SubSeqs(EnabledBlocks(blocks')) :
                        ret'.files = [k \in 1..Len(chosen) |-> chosen[k].filename]
                   /\ \A p \in DOMAIN fs \cup DOMAIN fs' :
                        Get(fs, p) # Get(fs', p)
                          => \E k \in 1..Len(record.files) : record.files[k].path = p]_vars

\* an empty record follows a record with entries
OneRecordPerApplyWitness ==
    /\ ret.op = "apply"
    /\ ~ret.raised
    /\ Len(history) = 2
    /\ history[1].files # <<>>
    /\ history[2].files = <<>>

RemoveStep == handoff.file # None /\ handoff'.file = None

\* a removed file holds the text the session stored
NotDeletedUnread ==
    [][RemoveStep => handoff.file = <<handoff'.incoming_patch>>]_vars

\* from some point on the session holds the text of the latest POST
LatestLoaded ==
    <>[](handoff.latest # None => handoff.latest = <<handoff.incoming_patch>>)

\* C39 -- No received patch is lost in the hand-off from the receiver to the
\* UI: under every interleaving of the receiver thread (which overwrites
\* .incoming_patch.txt on each POST) and the script run (which reads the
\* file, stores the text in incoming_patch and removes the file), the text
\* of the latest POST is eventually loaded, and a POST that lands between
\* the read and the remove is not deleted unread.
HandoffLossless == NotDeletedUnread /\ LatestLoaded

=============================================================================
